---- MODULE Spec2Model ----
(***************************************************************************)
(* Stop-routing engine of the organ controller: StopRouter                 *)
(* (src/src/logic/stops.py), the key-event entry points                    *)
(* (src/src/logic/input_mapper.py, src/src/master/actions.py) and the      *)
(* controller state they share (src/src/master/main.py).                   *)
(*                                                                         *)
(* Conventions of the translation                                          *)
(*  - a Python value that may be absent (dict.get(...) returning None) is  *)
(*    a set: {} for absent, {v} for present;                               *)
(*  - the internal stop id f"{division}:{stop_name}" is the pair           *)
(*    <<division, stop_name>> (what split(':', 1) gives back);             *)
(*  - a midi_address string is the sequence of its whitespace-separated    *)
(*    tokens, each token the sequence of its ':'-separated fields;         *)
(*  - controller.active_keys is an insertion-ordered dict: the sequence of *)
(*    its keys (the time.time() values are only ever displayed);           *)
(*  - controller.active_rank_notes is the set of its items                  *)
(*    [output, channel, note, rank] (timestamp dropped); the dict          *)
(*    operations keep one item per (output, channel, note);                *)
(*  - iteration over the unordered set active_stops is a nondeterministic  *)
(*    choice of order.                                                     *)
(***************************************************************************)
EXTENDS Integers, Sequences, FiniteSets, TLC

VARIABLES
    active_stops,       \* StopRouter.active_stops: set of internal ids
    active_keys,        \* OrganController.active_keys (insertion order)
    active_rank_notes,  \* OrganController.active_rank_notes: set of entries
    emitted,            \* messages handed to output.send_message: by the last
                        \* operation (Spec), by the last send (SpecThreads)
    lastOp,             \* the last operation, its arguments and result
    physDown,           \* history: keys whose last key event was a key-down
    input_alive,        \* the loop of MidiInput.process_messages is running
    running,            \* OrganController.running: stop() has not run
    scenario,           \* history: how many steps of the end-to-end scenario
                        \* the operations so far have just performed
    reply,              \* the last exchange: the manual code a simulated
                        \* key was asked for, the division a listing was
                        \* asked for, what a query reported, the message
                        \* the input mapper was given
    threads             \* per-thread position inside an operation (SpecThreads)

vars == <<active_stops, active_keys, active_rank_notes, emitted, lastOp,
          physDown, input_alive, running, scenario, reply, threads>>

-----------------------------------------------------------------------------
(* Bounds of the model                                                     *)

\* at most this many keys are held at once
MaxHeld == 2

\* keys played on the manuals of the input map
Keys == {<<"great", 48>>, <<"great", 60>>, <<"great", 90>>, <<"swell", 60>>,
         <<"swell", 120>>}

\* velocities of incoming note-on messages (0: note-on used as release)
Velocities == {0, 127}

-----------------------------------------------------------------------------
(* Registration catalog (stops.yaml, ranks.yaml, midi_ports.yaml as loaded) *)

None == {}
Some(v) == {v}
Get(opt, default) == IF opt = {} THEN default ELSE CHOOSE v \in opt : TRUE

\* lookup order of the division loop
DivisionOrder == <<"great", "swell", "choir", "pedal">>

Coupling(rank, transpose, vmin, vmax) ==
    [rank |-> rank, transpose |-> transpose,
     velocity_min |-> vmin, velocity_max |-> vmax]

\* stops_config: division -> stop id -> list of rank couplings ('ranks')
stops_config ==
    ("great" :>
        (   "GREAT_PRINCIPAL_8" :> <<Coupling("R1", Some(0), Some(1), Some(127))>>
         @@ "GREAT_MIXTURE" :>
                <<Coupling("R1", Some(0), Some(80), Some(80)),
                  Coupling("R2", Some(0), Some(20), Some(100)),
                  Coupling("R1", Some(12), None, None),
                  Coupling("R1", None, Some(1), Some(127))>>))
 @@ ("swell" :>
        (   "swell_flute_8" :>
                <<Coupling("RX", None, None, None),
                  Coupling("RNOC4", None, None, None),
                  Coupling("RNOADDR", None, None, None),
                  Coupling("RCLOSED", None, None, None),
                  Coupling("RCLOSED", None, None, None),
                  Coupling("RNOLABEL", None, None, None),
                  Coupling("RSHORT", None, None, None),
                  Coupling("RBADCH", None, None, None),
                  Coupling("R3", Some(12), None, None),
                  Coupling("R3", Some(-12), None, None),
                  Coupling("R3", Some(-12), Some(1), Some(127))>>))
 @@ ("pedal" :>
        (   "PEDAL_BOURDON_16" :> <<Coupling("R4", Some(0), None, None)>>
         @@ "PEDAL_RESULTANT_64" :> <<Coupling("R4", Some(-48), None, None)>>))

Address(client, port, channel) == <<<<"dev", "name">>, <<client, port, channel>>>>

\* self.ranks: physical_ranks and virtual_ranks merged by id
ranks ==
       "R1" :> [c4_pitch_note |-> Some(60), first_note |-> Some(36),
                last_note |-> Some(96), midi_address |-> Address("128", "0", "0")]
    @@ "R2" :> [c4_pitch_note |-> Some(36), first_note |-> Some(36),
                last_note |-> Some(96), midi_address |-> Address("128", "0", "1")]
    @@ "R3" :> [c4_pitch_note |-> Some(60), first_note |-> None,
                last_note |-> None, midi_address |-> Address("20", "2", "0")]
    @@ "R4" :> [c4_pitch_note |-> Some(60), first_note |-> None,
                last_note |-> None, midi_address |-> Address("20", "2", "1")]
    @@ "RNOC4" :> [c4_pitch_note |-> None, first_note |-> None,
                last_note |-> None, midi_address |-> Address("128", "0", "2")]
    @@ "RNOADDR" :> [c4_pitch_note |-> Some(60), first_note |-> None,
                last_note |-> None, midi_address |-> << >>]
    @@ "RCLOSED" :> [c4_pitch_note |-> Some(60), first_note |-> None,
                last_note |-> None, midi_address |-> Address("20", "1", "3")]
    @@ "RNOLABEL" :> [c4_pitch_note |-> Some(60), first_note |-> None,
                last_note |-> None, midi_address |-> <<<<"20", "2", "0">>>>]
    @@ "RSHORT" :> [c4_pitch_note |-> Some(60), first_note |-> None,
                last_note |-> None,
                midi_address |-> <<<<"dev", "name">>, <<"20", "2">>>>]
    @@ "RBADCH" :> [c4_pitch_note |-> Some(60), first_note |-> None,
                last_note |-> None, midi_address |-> Address("20", "2", "x")]

\* output_ports of midi_ports.yaml: output name -> tokens of the port address
output_ports ==
       "fluidsynth" :> <<<<"FS_Virtual", "FS_Virtual">>, <<"128", "0">>>>
    @@ "physical_ranks" :> <<<<"U6MIDI", "MIDI3">>, <<"20", "2">>>>
    @@ "hardware" :> <<<<"U6MIDI", "MIDI2">>, <<"20", "1">>>>

\* controller.midi_outputs: the outputs that could be opened at start-up
midi_outputs == {"fluidsynth", "physical_ranks"}

\* int(): the decimal strings the catalog uses
ParseInt(s) ==
    CASE s = "0" -> Some(0) [] s = "1" -> Some(1) [] s = "2" -> Some(2)
      [] s = "3" -> Some(3) [] OTHER -> None

Last(s) == s[Len(s)]
Front(s) == SubSeq(s, 1, Len(s) - 1)

\* client:port -> output name
port_to_output_map ==
    [cp \in {Last(output_ports[n]) : n \in {m \in DOMAIN output_ports :
                                              Len(output_ports[m]) >= 2}}
        |-> CHOOSE n \in DOMAIN output_ports :
               Len(output_ports[n]) >= 2 /\ Last(output_ports[n]) = cp]

-----------------------------------------------------------------------------
(* StopRouter._send_to_rank                                                *)

Min(a, b) == IF a < b THEN a ELSE b
Max(a, b) == IF a > b THEN a ELSE b

\* velocity = max(velocity_min, min(velocity_max, velocity)), note_on only
\* the velocity passed on as it came
PassVelocity(rank_config, velocity) == velocity

ClampVelocity(rank_config, velocity) ==
    Max(Get(rank_config.velocity_min, 1),
        Min(Get(rank_config.velocity_max, 127), velocity))

\* output_name = port_to_output_map.get(client_port), and it must be open
LookupOutput(client_port, channel) ==
    IF channel = None THEN None
    ELSE IF client_port \notin DOMAIN port_to_output_map THEN None
    ELSE IF port_to_output_map[client_port] \notin midi_outputs THEN None
    ELSE Some([output |-> port_to_output_map[client_port],
               channel |-> Get(channel, 0)])

\* the (output, channel) a midi_address resolves to, or None
ResolveAddress(midi_address) ==
    IF midi_address = << >> THEN None
    ELSE IF Len(midi_address) < 2 THEN None
    ELSE IF Len(Last(midi_address)) < 3 THEN None
    ELSE LookupOutput(Front(Last(midi_address)),
                      ParseInt(Last(Last(midi_address))))

\* mido.Message(...) raises ValueError on a data byte outside its range
MessageValid(note, velocity, channel) ==
    note \in 0..127 /\ velocity \in 0..127 /\ channel \in 0..15

\* msg = mido.Message(msg_type, ...); output.send_message(msg)
SendMessage(addr, rank_id, note, velocity, is_note_on) ==
    IF ~MessageValid(note, velocity, addr.channel)
    THEN [sends |-> << >>, raised |-> TRUE]
    ELSE [sends |-> <<[type |-> IF is_note_on THEN "note_on" ELSE "note_off",
                       output |-> addr.output, channel |-> addr.channel,
                       note |-> note, velocity |-> velocity,
                       rank |-> rank_id]>>,
          raised |-> FALSE]

\* a call that raises when the address does not resolve
AbortUnresolved(rank_id, rank_info, rank_config, note, velocity, is_note_on) ==
    IF ResolveAddress(rank_info.midi_address) = None
    THEN [sends |-> << >>, raised |-> TRUE]
    ELSE SendMessage(Get(ResolveAddress(rank_info.midi_address),
                         [output |-> "", channel |-> 0]),
                     rank_id, note,
                     IF is_note_on THEN ClampVelocity(rank_config, velocity)
                     ELSE velocity,
                     is_note_on)

\* the outcome of one call: the messages sent (none when the address does
\* not resolve) and whether the call raised
send_to_rank(rank_id, rank_info, rank_config, note, velocity, is_note_on) ==
    IF ResolveAddress(rank_info.midi_address) = None
    THEN [sends |-> << >>, raised |-> FALSE]
    ELSE SendMessage(Get(ResolveAddress(rank_info.midi_address),
                         [output |-> "", channel |-> 0]),
                     rank_id, note,
                     IF is_note_on THEN ClampVelocity(rank_config, velocity)
                     ELSE velocity,
                     is_note_on)

\* dict assignment / pop on active_rank_notes, one sent message
TrackMessage(rank_notes, msg) ==
    IF msg.type = "note_on"
    THEN {e \in rank_notes : <<e.output, e.channel, e.note>> #
                              <<msg.output, msg.channel, msg.note>>}
         \cup {[output |-> msg.output, channel |-> msg.channel,
                note |-> msg.note, rank |-> msg.rank]}
    ELSE {e \in rank_notes : <<e.output, e.channel, e.note>> #
                              <<msg.output, msg.channel, msg.note>>}

RECURSIVE TrackAll(_, _)
TrackAll(rank_notes, sends) ==
    IF sends = << >> THEN rank_notes
    ELSE TrackAll(TrackMessage(rank_notes, Head(sends)), Tail(sends))

-----------------------------------------------------------------------------
(* The three routing loops, each from its own source lines.  The progress  *)
(* of a loop is acc = [sends, sent_notes, raised]: the messages sent so    *)
(* far, the (rank_id, rank_note) pairs of sent_notes, and whether a call   *)
(* raised, which ends the loop.                                            *)

Start == [sends |-> << >>, sent_notes |-> {}, raised |-> FALSE]

\* a fresh `sent_notes = set()` for the next call
FreshSentNotes(acc) ==
    [sends |-> acc.sends, sent_notes |-> {}, raised |-> acc.raised]

\* `if note_key in sent_notes: continue`
AlreadySent(note_key, sent_notes) == note_key \in sent_notes

\* sent_notes.add(note_key), then the outcome r of self._send_to_rank(...)
Sent(acc, note_key, r) ==
    [sends |-> acc.sends \o r.sends,
     sent_notes |-> acc.sent_notes \cup {note_key},
     raised |-> r.raised]

\* rank_note = target_pitch + (c4_pitch_note - 60), _route_note_through_stop
route_rank_note(rank_config, rank_info, note) ==
    (note + Get(rank_config.transpose, 0))
        + (Get(rank_info.c4_pitch_note, 0) - 60)

\* StopRouter._route_note_through_stop: the body of the loop over the ranks
route_rank(rank_config, rank_info, rank_note, velocity, is_note_on, acc) ==
    IF rank_info.c4_pitch_note = None THEN acc
    ELSE IF rank_info.first_note # None
            /\ rank_note < Get(rank_info.first_note, 0) THEN acc
    ELSE IF rank_info.last_note # None
            /\ rank_note > Get(rank_info.last_note, 0) THEN acc
    ELSE IF AlreadySent(<<rank_config.rank, rank_note>>, acc.sent_notes) THEN acc
    ELSE Sent(acc, <<rank_config.rank, rank_note>>,
              send_to_rank(rank_config.rank, rank_info, rank_config, rank_note,
                           velocity, is_note_on))

RECURSIVE route_ranks(_, _, _, _, _, _)
route_ranks(rank_list, i, note, velocity, is_note_on, acc) ==
    IF i > Len(rank_list) \/ acc.raised THEN acc
    ELSE route_ranks(rank_list, i + 1, note, velocity, is_note_on,
            IF rank_list[i].rank \notin DOMAIN ranks THEN acc
            ELSE route_rank(rank_list[i], ranks[rank_list[i].rank],
                            route_rank_note(rank_list[i],
                                            ranks[rank_list[i].rank], note),
                            velocity, is_note_on, acc))

route_note_through_stop(stop_id, note, velocity, is_note_on, acc) ==
    route_ranks(stops_config[stop_id[1]][stop_id[2]], 1, note, velocity,
                is_note_on, FreshSentNotes(acc))

\* rank_note = target_pitch + (c4_pitch_note - 60), process_note_on
note_on_rank_note(rank_config, rank_info, note) ==
    (note + Get(rank_config.transpose, 0))
        + (Get(rank_info.c4_pitch_note, 0) - 60)

\* the body of the loop without the comparisons with the note range
note_on_rank_unchecked(rank_config, rank_info, rank_note, velocity, acc) ==
    IF rank_info.c4_pitch_note = None THEN acc
    ELSE IF AlreadySent(<<rank_config.rank, rank_note>>, acc.sent_notes) THEN acc
    ELSE Sent(acc, <<rank_config.rank, rank_note>>,
              send_to_rank(rank_config.rank, rank_info, rank_config, rank_note,
                           velocity, TRUE))

\* StopRouter.process_note_on: the body of the loop over the ranks
note_on_rank(rank_config, rank_info, rank_note, velocity, acc) ==
    IF rank_info.c4_pitch_note = None THEN acc
    ELSE IF rank_info.first_note # None
            /\ rank_note < Get(rank_info.first_note, 0) THEN acc
    ELSE IF rank_info.last_note # None
            /\ rank_note > Get(rank_info.last_note, 0) THEN acc
    ELSE IF AlreadySent(<<rank_config.rank, rank_note>>, acc.sent_notes) THEN acc
    ELSE Sent(acc, <<rank_config.rank, rank_note>>,
              send_to_rank(rank_config.rank, rank_info, rank_config, rank_note,
                           velocity, TRUE))

RECURSIVE note_on_ranks(_, _, _, _, _)
note_on_ranks(rank_list, i, note, velocity, acc) ==
    IF i > Len(rank_list) \/ acc.raised THEN acc
    ELSE note_on_ranks(rank_list, i + 1, note, velocity,
            IF rank_list[i].rank \notin DOMAIN ranks THEN acc
            ELSE note_on_rank(rank_list[i], ranks[rank_list[i].rank],
                              note_on_rank_note(rank_list[i],
                                                ranks[rank_list[i].rank], note),
                              velocity, acc))

\* the played note transposed, the pitch reference of the rank left out
note_off_transposed(rank_config, rank_info, note) ==
    note + Get(rank_config.transpose, 0)

\* rank_note = target_pitch + (c4_pitch_note - 60), process_note_off
note_off_rank_note(rank_config, rank_info, note) ==
    (note + Get(rank_config.transpose, 0))
        + (Get(rank_info.c4_pitch_note, 0) - 60)

\* StopRouter.process_note_off: the body of the loop over the ranks
note_off_rank(rank_config, rank_info, rank_note, acc) ==
    IF rank_info.c4_pitch_note = None THEN acc
    ELSE IF rank_info.first_note # None
            /\ rank_note < Get(rank_info.first_note, 0) THEN acc
    ELSE IF rank_info.last_note # None
            /\ rank_note > Get(rank_info.last_note, 0) THEN acc
    ELSE IF AlreadySent(<<rank_config.rank, rank_note>>, acc.sent_notes) THEN acc
    ELSE Sent(acc, <<rank_config.rank, rank_note>>,
              send_to_rank(rank_config.rank, rank_info, rank_config, rank_note,
                           0, FALSE))

RECURSIVE note_off_ranks(_, _, _, _)
note_off_ranks(rank_list, i, note, acc) ==
    IF i > Len(rank_list) \/ acc.raised THEN acc
    ELSE note_off_ranks(rank_list, i + 1, note,
            IF rank_list[i].rank \notin DOMAIN ranks THEN acc
            ELSE note_off_rank(rank_list[i], ranks[rank_list[i].rank],
                               note_off_rank_note(rank_list[i],
                                                  ranks[rank_list[i].rank], note),
                               acc))

\* the division filter left out (C7 depends on it)
ActiveStopsAnyDivision(stops, division) == stops

\* active_division_stops: the active stops whose id starts with "division:"
ActiveDivisionStops(stops, division) == {s \in stops : s[1] = division}

\* the orders in which a set may be iterated
Orders(S) ==
    {o \in [1..Cardinality(S) -> S] : \A i, j \in DOMAIN o : i # j => o[i] # o[j]}

\* `for stop_id in active_division_stops`, iterated in the order `order`,
\* one sent_notes for the whole event
RECURSIVE note_on_stops(_, _, _, _, _)
note_on_stops(order, j, note, velocity, acc) ==
    IF j > Len(order) \/ acc.raised THEN acc
    ELSE note_on_stops(order, j + 1, note, velocity,
            note_on_ranks(stops_config[order[j][1]][order[j][2]], 1, note,
                          velocity, acc))

RECURSIVE note_off_stops(_, _, _, _)
note_off_stops(order, j, note, acc) ==
    IF j > Len(order) \/ acc.raised THEN acc
    ELSE note_off_stops(order, j + 1, note,
            note_off_ranks(stops_config[order[j][1]][order[j][2]], 1, note, acc))

\* StopRouter.process_note_on / process_note_off for one iteration order
\* (an empty order is the early return `if not active_division_stops`)
process_note_on(order, note, velocity) ==
    note_on_stops(order, 1, note, velocity, Start)

process_note_off(order, note) == note_off_stops(order, 1, note, Start)

-----------------------------------------------------------------------------
(* StopRouter.activate_stop / deactivate_stop                              *)

\* every id taken for a stop of the first division
AnyDivision(stop_id, i) == Some(DivisionOrder[1])

\* for div in ['great', 'swell', 'choir', 'pedal']: the first division whose
\* stops hold stop_id, or None
RECURSIVE FindDivision(_, _)
FindDivision(stop_id, i) ==
    IF i > Len(DivisionOrder) THEN None
    ELSE IF DivisionOrder[i] \in DOMAIN stops_config
            /\ stop_id \in DOMAIN stops_config[DivisionOrder[i]]
         THEN Some(DivisionOrder[i])
         ELSE FindDivision(stop_id, i + 1)

\* held_keys = [(div, note) for (div, note) in active_keys if div == division]
HeldKeys(keys, division) == SelectSeq(keys, LAMBDA k : k[1] = division)

\* for _, note in held_keys: self._route_note_through_stop(...)
RECURSIVE route_held_keys(_, _, _, _, _, _)
route_held_keys(internal_id, held_keys, i, velocity, is_note_on, acc) ==
    IF i > Len(held_keys) \/ acc.raised THEN acc
    ELSE route_held_keys(internal_id, held_keys, i + 1, velocity, is_note_on,
            route_note_through_stop(internal_id, held_keys[i][2], velocity,
                                    is_note_on, acc))

\* the replay without the was_active test (C8 depends on the test)
ReplayAlways(was_active) == TRUE

\* `if not was_active and self.controller and hasattr(...)`
ReplayOnActivate(was_active) == ~was_active

\* the membership test left out (C9 depends on it)
IsActiveAlways(internal_id, stops) == TRUE

\* `if internal_id in self.active_stops`
IsActive(internal_id, stops) == internal_id \in stops

\* a replay at the highest velocity of the device keys
sound_at_full_velocity(internal_id, keys) ==
    route_held_keys(internal_id, HeldKeys(keys, internal_id[1]), 1,
                    CHOOSE v \in Velocities : \A w \in Velocities : w <= v,
                    TRUE, Start)

\* the replay of activate_stop: the held keys of the division at velocity 64
sound_held_keys(internal_id, keys) ==
    route_held_keys(internal_id, HeldKeys(keys, internal_id[1]), 1, 64, TRUE,
                    Start)

\* the replay of deactivate_stop: the held keys of the division as note_off
silence_held_keys(internal_id, keys) ==
    route_held_keys(internal_id, HeldKeys(keys, internal_id[1]), 1, 0, FALSE,
                    Start)

\* the result of a router call: the value returned (ret), whether the call
\* raised instead, the active stops afterwards and the messages sent
RouterResult(ret, stops, replay) ==
    [ret |-> ret /\ ~replay.raised, raised |-> replay.raised,
     stops |-> stops, sends |-> replay.sends]

\* activate_stop once the division is known
activate_internal(internal_id, stops, keys) ==
    RouterResult(TRUE, stops \cup {internal_id},
                 IF ReplayOnActivate(internal_id \in stops)
                 THEN sound_held_keys(internal_id, keys)
                 ELSE Start)

activate_stop(stop_id, stops, keys) ==
    IF FindDivision(stop_id, 1) = None
    THEN RouterResult(FALSE, stops, Start)
    ELSE activate_internal(<<Get(FindDivision(stop_id, 1), ""), stop_id>>,
                           stops, keys)

\* the stop left in the set
KeepStop(internal_id, stops, replay) == RouterResult(TRUE, stops, replay)

\* self.active_stops.remove(internal_id), not reached when the replay raised
RemoveStop(internal_id, stops, replay) ==
    RouterResult(TRUE, IF replay.raised THEN stops ELSE stops \ {internal_id},
                 replay)

\* deactivate_stop once the division is known
deactivate_internal(internal_id, stops, keys) ==
    IF IsActive(internal_id, stops)
    THEN RemoveStop(internal_id, stops, silence_held_keys(internal_id, keys))
    ELSE RouterResult(FALSE, stops, Start)

deactivate_stop(stop_id, stops, keys) ==
    IF FindDivision(stop_id, 1) = None
    THEN RouterResult(FALSE, stops, Start)
    ELSE deactivate_internal(<<Get(FindDivision(stop_id, 1), ""), stop_id>>,
                             stops, keys)

-----------------------------------------------------------------------------
(* Action facade: Actions.activate_stop / deactivate_stop                  *)

\* the identifier as it was given
SameCase(s) == s

\* str.upper() on the identifiers the model uses
Upper(s) ==
    CASE s = "great_mixture" -> "GREAT_MIXTURE"
      [] s = "Great_Mixture" -> "GREAT_MIXTURE"
      [] s = "great_principal_8" -> "GREAT_PRINCIPAL_8"
      [] s = "Swell_Flute_8" -> "SWELL_FLUTE_8"
      [] s = "no_such_stop" -> "NO_SUCH_STOP"
      [] s = "p" -> "P"
      [] s = "swell_flute_8" -> "SWELL_FLUTE_8"
      [] s = "g" -> "G"
      [] s = "s" -> "S"
      [] s = "x" -> "X"
      [] OTHER -> s

\* controller.stop_index: the stop ids of the four divisions
stop_index ==
    UNION {DOMAIN stops_config[DivisionOrder[i]] :
             i \in {j \in DOMAIN DivisionOrder :
                      DivisionOrder[j] \in DOMAIN stops_config}}

\* a lookup that finds every id
LookupAny(stop_id) == Some(stop_id)

\* the case-insensitive lookup: the catalog id for stop_id, or None
LookupStop(stop_id) ==
    IF Upper(stop_id) \in stop_index THEN Some(Upper(stop_id))
    ELSE IF \E sid \in stop_index : Upper(sid) = Upper(stop_id)
         THEN Some(CHOOSE sid \in stop_index : Upper(sid) = Upper(stop_id))
         ELSE None

\* a result that says nothing when the router raised
SilentResult(r, failure) ==
    [success |-> ~r.raised /\ r.ret,
     error |-> IF r.raised \/ r.ret THEN "" ELSE failure,
     stops |-> r.stops, sends |-> r.sends]

\* the dict a facade call returns, from the router's result r; `failure` is
\* the error reported when the router returns False
FacadeResult(r, failure) ==
    [success |-> ~r.raised /\ r.ret,
     error |-> IF r.raised THEN "exception"
               ELSE IF r.ret THEN "" ELSE failure,
     stops |-> r.stops, sends |-> r.sends]

UnknownStop(stops) ==
    [success |-> FALSE, error |-> "Unknown stop", stops |-> stops,
     sends |-> << >>]

Actions_activate_stop(stop_id, stops, keys) ==
    IF LookupStop(stop_id) = None THEN UnknownStop(stops)
    ELSE FacadeResult(activate_stop(Get(LookupStop(stop_id), ""), stops, keys),
                      "Failed to activate stop")

Actions_deactivate_stop(stop_id, stops, keys) ==
    IF LookupStop(stop_id) = None THEN UnknownStop(stops)
    ELSE FacadeResult(deactivate_stop(Get(LookupStop(stop_id), ""), stops,
                                      keys),
                      "Stop not active")

-----------------------------------------------------------------------------
(* Key events                                                              *)

\* an insert that records every press
KeyAppend(keys, key) == Append(keys, key)

\* active_keys[(division, note)] = time.time()
KeyInsert(keys, key) ==
    IF \E i \in DOMAIN keys : keys[i] = key THEN keys ELSE Append(keys, key)

\* a pop that forgets only the key pressed last (C10 depends on the pop)
KeyPopLast(keys, key) ==
    IF keys # << >> /\ Last(keys) = key THEN Front(keys) ELSE keys

\* active_keys.pop((division, note), None)
KeyPop(keys, key) == SelectSeq(keys, LAMBDA k : k # key)

\* `if msg_type == 'note_on' and velocity > 0`
IsKeyDown(msg_type, velocity) == msg_type = "note_on" /\ velocity > 0

\* Actions.simulate_key_on / simulate_key_off: manual_map
manual_map == ("G" :> "great") @@ ("S" :> "swell") @@ ("C" :> "choir")
              @@ ("P" :> "pedal")

\* the manual code examined, the note taken as it is
ManualErrorOnly(manual, note) ==
    IF Upper(manual) \notin DOMAIN manual_map THEN "Invalid manual" ELSE ""

\* the validation of simulate_key_on / simulate_key_off: "" when valid
SimulateError(manual, note) ==
    IF Upper(manual) \notin DOMAIN manual_map THEN "Invalid manual"
    ELSE IF ~(0 <= note /\ note <= 127) THEN "Invalid note"
    ELSE ""

-----------------------------------------------------------------------------
(* Inputs of the operations                                                *)

\* stop ids given to the facade: exact, lower-cased, upper-cased, unknown
StopIds == {"GREAT_PRINCIPAL_8", "great_mixture", "SWELL_FLUTE_8", "NO_SUCH_STOP"}

\* (msg.type, msg.velocity) of incoming key messages
KeyMessages == {<<"note_on", v>> : v \in Velocities} \cup {<<"note_off", 64>>}

\* (manual, note) given to simulate_key_on / simulate_key_off
SimKeys == {<<"G", 60>>, <<"s", 60>>, <<"X", 60>>, <<"G", 128>>}

Op(kind, stop, division, note, velocity, success, error) ==
    [kind |-> kind, stop |-> stop, division |-> division, note |-> note,
     velocity |-> velocity, success |-> success, error |-> error]

\* history: a message that presses a key (a note-on of velocity 0 releases)
PhysicalPress(msg) == msg[1] = "note_on" /\ msg[2] # 0

\* the threads that reach the shared state: the MIDI input thread, the
\* interactive command loop and the thread of the web API
Threads == {"input", "command", "api"}

IdleThread ==
    [pc |-> "idle", kind |-> "", stop |-> <<"", "">>, key |-> <<"", 0>>,
     velocity |-> 0, todo |-> << >>]

\* the model holds at most MaxHeld keys
MayHold(keys, key) ==
    (\E i \in DOMAIN keys : keys[i] = key) \/ Len(keys) < MaxHeld

\* the end-to-end scenario of the specification, step by step: activate
\* GREAT_PRINCIPAL_8, key down (great, 60, 100), key up (great, 60),
\* deactivate GREAT_PRINCIPAL_8, key down (great, 60)
ScenarioStep(k, op) ==
    CASE k = 1 -> op.kind = "activate_stop" /\ op.stop = "GREAT_PRINCIPAL_8"
      [] k = 2 -> /\ op.kind = "key_down" /\ op.division = "great"
                  /\ op.note = 60 /\ op.velocity = 100
      [] k = 3 -> op.kind = "key_up" /\ op.division = "great" /\ op.note = 60
      [] k = 4 -> op.kind = "deactivate_stop" /\ op.stop = "GREAT_PRINCIPAL_8"
      [] k = 5 -> op.kind = "key_down" /\ op.division = "great" /\ op.note = 60
      [] OTHER -> FALSE

\* the state of a controller that has just started
Fresh == active_stops = {} /\ active_keys = << >> /\ active_rank_notes = {}

\* history: the scenario advances when the operation just performed is its
\* next step, starts when the first step is performed on a fresh
\* controller, and is abandoned otherwise
Advance(k, op) ==
    IF k >= 1 /\ ScenarioStep(k + 1, op) THEN k + 1
    ELSE IF Fresh /\ ScenarioStep(1, op) THEN 1
    ELSE 0

\* every operation is performed by a running controller, which it leaves
\* running, and is recorded in the history
Recorded ==
    /\ running
    /\ running' = running
    /\ scenario' = Advance(scenario, lastOp')

\* no message was given to the input mapper
NoMessage == [type |-> "", channel |-> 0, note |-> 0, velocity |-> 0]

\* the payload of an operation that reports nothing about the state
NoReply == [manual |-> "", stops |-> << >>, keys |-> << >>, notes |-> {},
            active_keys |-> 0, active_notes |-> 0, message |-> NoMessage,
            division |-> ""]

\* a simulated key asked for with this manual code
Asked(manual) == Recorded /\ reply' = [NoReply EXCEPT !.manual = manual]

\* an operation that is not a query
Observe == Recorded /\ reply' = NoReply

\* the input mapper was given this message
Received(msg) == Recorded /\ reply' = [NoReply EXCEPT !.message = msg]

-----------------------------------------------------------------------------
Init ==
    /\ active_stops = {}
    /\ active_keys = << >>
    /\ active_rank_notes = {}
    /\ emitted = << >>
    /\ lastOp = Op("init", "", "", 0, 0, TRUE, "")
    /\ physDown = {}
    /\ input_alive = TRUE
    /\ running = TRUE
    /\ scenario = 0
    /\ reply = NoReply
    /\ threads = [t \in Threads |-> IdleThread]

\* the state after a facade stop call with result r
StopCallDone(kind, stop_id, r) ==
    /\ active_stops' = r.stops
    /\ active_rank_notes' = TrackAll(active_rank_notes, r.sends)
    /\ emitted' = r.sends
    /\ lastOp' = Op(kind, stop_id, "", 0, 0, r.success, r.error)
    /\ UNCHANGED <<active_keys, physDown, input_alive, threads>>
    /\ Observe

\* Actions.activate_stop(stop_id)
ActivateStop(stop_id) ==
    StopCallDone("activate_stop", stop_id,
                 Actions_activate_stop(stop_id, active_stops, active_keys))

\* Actions.deactivate_stop(stop_id)
DeactivateStop(stop_id) ==
    StopCallDone("deactivate_stop", stop_id,
                 Actions_deactivate_stop(stop_id, active_stops, active_keys))

\* the state after the routing r of a key event
KeyRouted(kind, division, note, velocity, r) ==
    /\ active_rank_notes' = TrackAll(active_rank_notes, r.sends)
    /\ emitted' = r.sends
    /\ lastOp' = Op(kind, "", division, note, velocity, ~r.raised,
                    IF r.raised THEN "exception" ELSE "")

\* the state change of a key press: track the key, then process_note_on
PressKey(kind, division, note, velocity) ==
    /\ MayHold(active_keys, <<division, note>>)
    /\ active_keys' = KeyInsert(active_keys, <<division, note>>)
    /\ \E order \in Orders(ActiveDivisionStops(active_stops, division)) :
          KeyRouted(kind, division, note, velocity,
                    process_note_on(order, note, velocity))
    /\ UNCHANGED <<active_stops, threads>>

\* the state change of a key release: forget the key, then process_note_off
ReleaseKey(kind, division, note, velocity) ==
    /\ active_keys' = KeyPop(active_keys, <<division, note>>)
    /\ \E order \in Orders(ActiveDivisionStops(active_stops, division)) :
          KeyRouted(kind, division, note, velocity,
                    process_note_off(order, note))
    /\ UNCHANGED <<active_stops, threads>>

\* InputMapper._handle_key_event(division, note, velocity, msg_type); an
\* exception ends the loop of process_messages that called it
handle_key_event(division, note, msg) ==
    /\ IF IsKeyDown(msg[1], msg[2])
       THEN PressKey("key_down", division, note, msg[2])
       ELSE ReleaseKey("key_up", division, note, msg[2])
    /\ physDown' = IF PhysicalPress(msg)
                   THEN physDown \cup {<<division, note>>}
                   ELSE physDown \ {<<division, note>>}
    /\ input_alive' = lastOp'.success

\* a key event taken from the loop of process_messages
HandleKeyEvent(division, note, msg) ==
    /\ input_alive
    /\ handle_key_event(division, note, msg)
    /\ Observe

\* a simulated key pressed as hard as the keys of the input device
FullVelocity == CHOOSE v \in Velocities : \A w \in Velocities : w <= v

\* velocity = 64  # Default velocity
SimulatedVelocity == 64

\* Actions.simulate_key_on(manual, note)
SimulateKeyOn(manual, note) ==
    /\ IF SimulateError(manual, note) # ""
       THEN /\ lastOp' = Op("simulate_key_on", "", manual, note, 0, FALSE,
                            SimulateError(manual, note))
            /\ emitted' = << >>
            /\ UNCHANGED <<active_stops, active_keys, active_rank_notes,
                           physDown, input_alive, threads>>
       ELSE /\ PressKey("simulate_key_on", manual_map[Upper(manual)], note,
                        SimulatedVelocity)
            /\ physDown' = physDown \cup {<<manual_map[Upper(manual)], note>>}
            /\ UNCHANGED input_alive
    /\ Asked(manual)

\* Actions.simulate_key_off(manual, note)
SimulateKeyOff(manual, note) ==
    /\ IF SimulateError(manual, note) # ""
       THEN /\ lastOp' = Op("simulate_key_off", "", manual, note, 0, FALSE,
                            SimulateError(manual, note))
            /\ emitted' = << >>
            /\ UNCHANGED <<active_stops, active_keys, active_rank_notes,
                           physDown, input_alive, threads>>
       ELSE /\ ReleaseKey("simulate_key_off", manual_map[Upper(manual)], note, 0)
            /\ physDown' = physDown \ {<<manual_map[Upper(manual)], note>>}
            /\ UNCHANGED input_alive
    /\ Asked(manual)

Next ==
    \/ \E stop_id \in StopIds : ActivateStop(stop_id)
    \/ \E stop_id \in StopIds : DeactivateStop(stop_id)
    \/ \E key \in Keys, msg \in KeyMessages : HandleKeyEvent(key[1], key[2], msg)
    \/ \E sim \in SimKeys : SimulateKeyOn(sim[1], sim[2])
    \/ \E sim \in SimKeys : SimulateKeyOff(sim[1], sim[2])

Spec == Init /\ [][Next]_vars

-----------------------------------------------------------------------------
(* The console: the facade's all-clear and panic, the router's own         *)
(* clear_all_stops, and the shutdown of the controller                      *)

\* the order of controller.midi_outputs, the dict start() fills
midi_output_order == <<"fluidsynth", "physical_ranks">>

\* range(16): the channels of a MIDI port
NumChannels == 16

\* all-notes-off only
PanicNotesOffOnly == <<123>>

\* the controllers sent per channel: all notes off, all sound off, reset
\* all controllers
PanicControls == <<123, 120, 121>>

\* MidiOutput.send_message on an open port: port.send inside try/except, a
\* failing send is logged and the caller goes on
SendControl(output, channel, control, fails) ==
    [type |-> "control_change", output |-> output, channel |-> channel,
     control |-> control, value |-> 0,
     delivered |-> <<output, channel>> \notin fails]

\* the loops of Actions.panic: outputs, channels, controllers
panic_messages(fails) ==
    [k \in 1..(Len(midi_output_order) * NumChannels * Len(PanicControls)) |->
        SendControl(midi_output_order[((k - 1) \div
                                       (NumChannels * Len(PanicControls))) + 1],
                    ((k - 1) \div Len(PanicControls)) % NumChannels,
                    PanicControls[((k - 1) % Len(PanicControls)) + 1],
                    fails)]

\* the (output, channel) pairs whose port.send fails during one panic
PanicFailures == {{}, {<<"fluidsynth", 3>>},
                  {<<"physical_ranks", 0>>, <<"physical_ranks", 15>>}}

\* a panic that pushes in every stop as well
PanicAndClear(fails) ==
    /\ emitted' = panic_messages(fails)
    /\ active_keys' = << >>
    /\ active_rank_notes' = {}
    /\ active_stops' = {}
    /\ lastOp' = Op("panic", "", "", 0, 0, TRUE, "")
    /\ UNCHANGED <<physDown, input_alive, threads>>
    /\ Observe

\* Actions.panic()
Panic(fails) ==
    /\ emitted' = panic_messages(fails)
    /\ active_keys' = << >>
    /\ active_rank_notes' = {}
    /\ lastOp' = Op("panic", "", "", 0, 0, TRUE, "")
    /\ UNCHANGED <<active_stops, physDown, input_alive, threads>>
    /\ Observe

\* the loop of Actions.all_clear over list(active_stops): one call of
\* StopRouter.deactivate_stop per stop, an exception ends the loop
RECURSIVE all_clear_loop(_, _, _, _)
all_clear_loop(order, j, keys, acc) ==
    IF j > Len(order) \/ acc.raised THEN acc
    ELSE all_clear_loop(order, j + 1, keys,
            LET r == deactivate_stop(order[j][2], acc.stops, keys)
            IN  [stops |-> r.stops, sends |-> acc.sends \o r.sends,
                 raised |-> r.raised])

all_clear(order, stops, keys) ==
    all_clear_loop(order, 1, keys,
                   [stops |-> stops, sends |-> << >>, raised |-> FALSE])

\* the state after Actions.all_clear
AllClearDone(r) ==
    /\ active_stops' = r.stops
    /\ active_rank_notes' = TrackAll(active_rank_notes, r.sends)
    /\ emitted' = r.sends
    /\ lastOp' = Op("all_clear", "", "", 0, 0, ~r.raised,
                    IF r.raised THEN "exception" ELSE "")
    /\ UNCHANGED <<active_keys, physDown, input_alive, threads>>
    /\ Observe

\* Actions.all_clear()
AllClear ==
    \E order \in Orders(active_stops) :
        AllClearDone(all_clear(order, active_stops, active_keys))

\* StopRouter.clear_all_stops()
ClearAllStops ==
    /\ active_stops' = {}
    /\ emitted' = << >>
    /\ lastOp' = Op("clear_all_stops", "", "", 0, 0, TRUE, "")
    /\ UNCHANGED <<active_keys, active_rank_notes, physDown, input_alive,
                   threads>>
    /\ Observe

\* OrganController.stop(), after a signal or at the end of start(): the
\* input and the outputs are closed, nothing is sent
Shutdown ==
    /\ running
    /\ running' = FALSE
    /\ emitted' = << >>
    /\ lastOp' = Op("stop", "", "", 0, 0, TRUE, "")
    /\ scenario' = 0
    /\ reply' = NoReply
    /\ UNCHANGED <<active_stops, active_keys, active_rank_notes, physDown,
                   input_alive, threads>>

ConsoleKeys == {<<"great", 30>>, <<"great", 60>>, <<"swell", 120>>}

ConsoleMessages == {<<"note_on", 10>>, <<"note_on", 100>>, <<"note_on", 127>>,
                    <<"note_off", 64>>}

ConsoleStopIds == {"GREAT_PRINCIPAL_8", "great_mixture", "SWELL_FLUTE_8"}

NextConsole ==
    \/ \E stop_id \in ConsoleStopIds : ActivateStop(stop_id)
    \/ \E stop_id \in ConsoleStopIds : DeactivateStop(stop_id)
    \/ \E key \in ConsoleKeys, msg \in ConsoleMessages :
          HandleKeyEvent(key[1], key[2], msg)
    \/ \E fails \in PanicFailures : Panic(fails)
    \/ AllClear
    \/ ClearAllStops
    \/ Shutdown

SpecConsole == Init /\ [][NextConsole]_vars

-----------------------------------------------------------------------------
(* The routing laws: keys below the range of the great ranks, keys routed   *)
(* to the unbounded rank, and velocities on both sides of the bounds        *)

RoutingKeys == {<<"great", 30>>, <<"great", 60>>, <<"swell", 100>>,
                <<"swell", 120>>}

RoutingMessages == {<<"note_on", 10>>, <<"note_on", 127>>, <<"note_off", 64>>}

NextRouting ==
    \/ \E stop_id \in StopIds : ActivateStop(stop_id)
    \/ \E stop_id \in StopIds : DeactivateStop(stop_id)
    \/ \E key \in RoutingKeys, msg \in RoutingMessages :
          HandleKeyEvent(key[1], key[2], msg)

SpecRouting == Init /\ [][NextRouting]_vars

-----------------------------------------------------------------------------
(* The action facade as a whole: stop calls under several spellings,       *)
(* simulated keys, all-clear, panic and the queries                        *)

\* str.lower() on the division names the model uses
Lower(s) ==
    CASE s = "GREAT" -> "great"
      [] s = "Swell" -> "swell"
      [] s = "NAVE" -> "nave"
      [] OTHER -> s

\* the order in which the catalog declares the stops of a division
stop_order ==
       "great" :> <<"GREAT_PRINCIPAL_8", "GREAT_MIXTURE">>
    @@ "swell" :> <<"swell_flute_8">>
    @@ "pedal" :> <<"PEDAL_BOURDON_16", "PEDAL_RESULTANT_64">>

\* the entries list_stops appends for one division
ListDivision(div, stops) ==
    [i \in DOMAIN stop_order[div] |->
        [id |-> stop_order[div][i], division |-> div,
         active |-> <<div, stop_order[div][i]>> \in stops]]

\* the loop of list_stops over divisions_to_list
RECURSIVE ListDivisions(_, _, _)
ListDivisions(divs, i, stops) ==
    IF i > Len(divs) THEN << >>
    ELSE IF divs[i] \notin DOMAIN stops_config
         THEN ListDivisions(divs, i + 1, stops)
         ELSE ListDivision(divs[i], stops) \o ListDivisions(divs, i + 1, stops)

\* the state after a query: nothing is sent, nothing changes but the reply
Queried(kind, success, error, payload) ==
    /\ lastOp' = Op(kind, "", "", 0, 0, success, error)
    /\ emitted' = << >>
    /\ reply' = payload
    /\ UNCHANGED <<active_stops, active_keys, active_rank_notes, physDown,
                   input_alive, threads>>
    /\ Recorded

\* Actions.list_stops(division); "" stands for no division given
ListStops(division) ==
    IF division = ""
    THEN Queried("list_stops", TRUE, "",
                 [NoReply EXCEPT !.stops = ListDivisions(DivisionOrder, 1,
                                                         active_stops)])
    ELSE IF Lower(division) \notin DOMAIN stops_config
    THEN Queried("list_stops", FALSE, "Unknown division",
                 [NoReply EXCEPT !.division = division])
    ELSE Queried("list_stops", TRUE, "",
                 [NoReply EXCEPT !.division = division,
                                 !.stops = ListDivisions(<<Lower(division)>>, 1,
                                                         active_stops)])

\* no stop reported
NoStopIds(order, with_division) == << >>

\* the stop ids split off the internal ids, in the order of iteration
StopIdsOf(order, with_division) ==
    [i \in DOMAIN order |->
        [id |-> order[i][2],
         division |-> IF with_division THEN order[i][1] ELSE "",
         active |-> TRUE]]

\* Actions.get_active_stops()
GetActiveStops ==
    \E order \in Orders(active_stops) :
        Queried("get_active_stops", TRUE, "",
                [NoReply EXCEPT !.stops = StopIdsOf(order, FALSE)])

\* Actions.get_status(): every active stop is found in stop_index under its
\* own id, with the division load_stops_config stored in it
GetStatus ==
    \E order \in Orders({st \in active_stops : st[2] \in stop_index}) :
        Queried("get_status", TRUE, "",
                [NoReply EXCEPT !.stops = StopIdsOf(order, TRUE),
                                !.active_keys = Len(active_keys),
                                !.active_notes = Cardinality(active_rank_notes)])

\* Actions.get_state(state_type); "" stands for no filter given
GetState(state_type) ==
    \E order \in Orders(active_stops) :
        Queried("get_state", TRUE, "",
                [NoReply EXCEPT
                    !.stops = StopIdsOf(order, FALSE),
                    !.keys = IF state_type \in {"", "keys"}
                             THEN active_keys ELSE << >>,
                    !.notes = IF state_type \in {"", "notes"}
                              THEN active_rank_notes ELSE {}])

FacadeStopIds == {"GREAT_PRINCIPAL_8", "great_principal_8", "Great_Mixture",
                  "SWELL_FLUTE_8", "swell_flute_8", "no_such_stop"}

FacadeSimKeys == {<<"G", 60>>, <<"s", 120>>, <<"X", 60>>, <<"p", 40>>,
                  <<"G", 128>>, <<"S", -1>>}

ListArguments == {"", "GREAT", "Swell", "NAVE"}

StateFilters == {"", "keys", "notes", "stops"}

NextFacade ==
    \/ \E stop_id \in FacadeStopIds : ActivateStop(stop_id)
    \/ \E stop_id \in FacadeStopIds : DeactivateStop(stop_id)
    \/ \E sim \in FacadeSimKeys : SimulateKeyOn(sim[1], sim[2])
    \/ \E sim \in FacadeSimKeys : SimulateKeyOff(sim[1], sim[2])
    \/ AllClear
    \/ \E fails \in PanicFailures : Panic(fails)
    \/ \E division \in ListArguments : ListStops(division)
    \/ GetActiveStops
    \/ GetStatus
    \/ \E state_type \in StateFilters : GetState(state_type)

SpecFacade == Init /\ [][NextFacade]_vars

-----------------------------------------------------------------------------
(* Input mapper: InputMapper.process_message                               *)

\* input_map.yaml as _build_lookups stores it: channel -> division and
\* channel -> (first_note, last_note) of the manuals
manual_channels == (0 :> "great") @@ (1 :> "swell")

manual_ranges == (0 :> <<36, 96>>) @@ (1 :> <<36, 96>>)

pedal_channel == 2

pedal_range == <<36, 67>>

stop_channel == 3

\* note -> (division, stop_id), split off "division:STOP_ID"
stop_mappings ==
       (10 :> <<"great", "GREAT_PRINCIPAL_8">>)
    @@ (11 :> <<"swell", "swell_flute_8">>)

\* f"{division}:{stop_id}"
Join(division, stop_id) == division \o ":" \o stop_id

\* every note taken for a key
AnyKey(range, note) == TRUE

\* first_key <= note <= last_key
InKeyRange(range, note) == range[1] <= note /\ note <= range[2]

\* a message process_message returns from without calling a handler
Ignored(msg) ==
    /\ lastOp' = Op("ignored", "", "", msg.note, msg.velocity, TRUE, "")
    /\ emitted' = << >>
    /\ UNCHANGED <<active_stops, active_keys, active_rank_notes, physDown,
                   input_alive, threads>>

\* InputMapper._handle_stop_event(note, msg_type): the router is called with
\* the id f"{division}:{stop_id}"; what it returns is dropped, an exception
\* ends the loop of process_messages
handle_stop_event(note, msg_type) ==
    LET division == stop_mappings[note][1]
        stop_id == stop_mappings[note][2]
        r == IF msg_type = "note_on"
             THEN activate_stop(Join(division, stop_id), active_stops,
                                active_keys)
             ELSE deactivate_stop(Join(division, stop_id), active_stops,
                                  active_keys)
    IN  /\ active_stops' = r.stops
        /\ active_rank_notes' = TrackAll(active_rank_notes, r.sends)
        /\ emitted' = r.sends
        /\ lastOp' = Op(IF msg_type = "note_on" THEN "stop_draw"
                        ELSE "stop_cancel",
                        stop_id, division, note, 0, ~r.raised,
                        IF r.raised THEN "exception" ELSE "")
        /\ input_alive' = ~r.raised
        /\ UNCHANGED <<active_keys, physDown, threads>>

\* InputMapper.process_message(msg), called from the loop of
\* MidiInput.process_messages
ProcessMessage(msg) ==
    /\ input_alive
    /\ IF msg.type \notin {"note_on", "note_off"} THEN Ignored(msg)
       ELSE IF msg.channel \in DOMAIN manual_channels
       THEN IF InKeyRange(manual_ranges[msg.channel], msg.note)
            THEN handle_key_event(manual_channels[msg.channel], msg.note,
                                  <<msg.type, msg.velocity>>)
            ELSE Ignored(msg)
       ELSE IF msg.channel = pedal_channel
       THEN IF InKeyRange(pedal_range, msg.note)
            THEN handle_key_event("pedal", msg.note,
                                  <<msg.type, msg.velocity>>)
            ELSE Ignored(msg)
       ELSE IF msg.channel = stop_channel
       THEN IF msg.note \in DOMAIN stop_mappings
            THEN handle_stop_event(msg.note, msg.type)
            ELSE Ignored(msg)
       ELSE Ignored(msg)
    /\ Received(msg)

Msg(type, channel, note, velocity) ==
    [type |-> type, channel |-> channel, note |-> note, velocity |-> velocity]

\* messages from the input device: keys of both manuals and the pedal,
\* pistons (notes outside the key range), the stop board with mapped and
\* unmapped notes, a channel that is not configured, a message that is no
\* note message
InputMessages ==
    {Msg("note_on", 0, 60, 100), Msg("note_off", 0, 60, 0),
     Msg("note_on", 0, 60, 0), Msg("note_on", 0, 20, 100),
     Msg("note_on", 0, 60, 64),
     Msg("note_on", 0, 97, 100),
     Msg("note_on", 1, 90, 100), Msg("note_off", 1, 20, 64),
     Msg("note_on", 2, 40, 100), Msg("note_on", 2, 90, 100),
     Msg("note_on", 2, 40, 0),
     Msg("note_on", 3, 10, 127), Msg("note_off", 3, 10, 0),
     Msg("note_on", 3, 11, 127), Msg("note_on", 3, 10, 0),
     Msg("note_on", 3, 12, 127), Msg("note_off", 3, 60, 0),
     Msg("note_on", 5, 60, 100), Msg("note_off", 9, 60, 0),
     Msg("control_change", 0, 60, 100), Msg("program_change", 3, 10, 0)}

\* (manual, note) of the simulated keys, each a key of the input map
InputSimKeys == {<<"G", 60>>, <<"s", 90>>, <<"P", 40>>}

NextInput ==
    \/ \E msg \in InputMessages : ProcessMessage(msg)
    \/ \E stop_id \in ConsoleStopIds : ActivateStop(stop_id)
    \/ \E stop_id \in ConsoleStopIds : DeactivateStop(stop_id)
    \/ \E sim \in InputSimKeys : SimulateKeyOn(sim[1], sim[2])
    \/ \E sim \in InputSimKeys : SimulateKeyOff(sim[1], sim[2])

SpecInput == Init /\ [][NextInput]_vars

-----------------------------------------------------------------------------
(* The same operations, one shared-state access at a time.  No lock is     *)
(* taken anywhere in the code, so a thread's step is enabled whatever the  *)
(* other threads are doing.  The input thread runs key events; the command *)
(* loop and the web API run the stop calls of the facade.                  *)

ThreadKeys == {<<"great", 60>>}

ThreadMessages == {<<"note_on", 127>>, <<"note_off", 64>>}

ThreadStopIds == {"great_mixture"}

ThreadKinds == {"key_down", "key_up", "activate_stop", "deactivate_stop"}

\* the internal id the router builds for a stop id the catalog knows
InternalId(stop_id) ==
    <<Get(FindDivision(Get(LookupStop(stop_id), ""), 1), ""),
      Get(LookupStop(stop_id), "")>>

At(t, pc, kinds) == threads[t].pc = pc /\ threads[t].kind \in kinds

Goto(t, pc, todo) ==
    threads' = [threads EXCEPT ![t].pc = pc, ![t].todo = todo]

\* _handle_key_event up to the call of the router: the key is tracked
T_TrackKey(t, key, msg) ==
    /\ t = "input"
    /\ input_alive
    /\ threads[t].pc = "idle"
    /\ IsKeyDown(msg[1], msg[2]) => MayHold(active_keys, key)
    /\ active_keys' = IF IsKeyDown(msg[1], msg[2])
                      THEN KeyInsert(active_keys, key)
                      ELSE KeyPop(active_keys, key)
    /\ physDown' = IF PhysicalPress(msg) THEN physDown \cup {key}
                   ELSE physDown \ {key}
    /\ threads' = [threads EXCEPT ![t] =
                     [pc |-> "stops",
                      kind |-> IF IsKeyDown(msg[1], msg[2]) THEN "key_down"
                               ELSE "key_up",
                      stop |-> <<"", "">>, key |-> key, velocity |-> msg[2],
                      todo |-> << >>]]
    /\ lastOp' = Op(threads'[t].kind, "", key[1], key[2], msg[2], TRUE, "")
    /\ UNCHANGED <<active_stops, active_rank_notes, emitted, input_alive,
                   running, scenario, reply>>

\* process_note_on / process_note_off: the list comprehension reads
\* active_stops once; the messages to send follow from that list
T_ReadStops(t) ==
    /\ At(t, "stops", {"key_down", "key_up"})
    /\ \E order \in Orders(ActiveDivisionStops(active_stops, threads[t].key[1])) :
          Goto(t, "send",
               IF threads[t].kind = "key_down"
               THEN process_note_on(order, threads[t].key[2],
                                    threads[t].velocity).sends
               ELSE process_note_off(order, threads[t].key[2]).sends)
    /\ UNCHANGED <<active_stops, active_keys, active_rank_notes, emitted,
                   lastOp, physDown, input_alive,
                   running, scenario, reply>>

\* activate_stop up to the replay: membership test and add
T_Activate(t, stop_id) ==
    /\ t # "input"
    /\ threads[t].pc = "idle"
    /\ active_stops' = active_stops \cup {InternalId(stop_id)}
    /\ threads' = [threads EXCEPT ![t] =
                     [pc |-> IF ReplayOnActivate(IsActive(InternalId(stop_id),
                                                          active_stops))
                             THEN "held" ELSE "idle",
                      kind |-> "activate_stop", stop |-> InternalId(stop_id),
                      key |-> <<"", 0>>, velocity |-> 0, todo |-> << >>]]
    /\ lastOp' = Op("activate_stop", stop_id, "", 0, 0, TRUE, "")
    /\ UNCHANGED <<active_keys, active_rank_notes, emitted, physDown,
                   input_alive,
                   running, scenario, reply>>

\* deactivate_stop up to the replay: the membership test
T_Deactivate(t, stop_id) ==
    /\ t # "input"
    /\ threads[t].pc = "idle"
    /\ threads' = [threads EXCEPT ![t] =
                     [pc |-> IF IsActive(InternalId(stop_id), active_stops)
                             THEN "held" ELSE "idle",
                      kind |-> "deactivate_stop", stop |-> InternalId(stop_id),
                      key |-> <<"", 0>>, velocity |-> 0, todo |-> << >>]]
    /\ lastOp' = Op("deactivate_stop", stop_id, "", 0, 0,
                    IsActive(InternalId(stop_id), active_stops),
                    IF IsActive(InternalId(stop_id), active_stops) THEN ""
                    ELSE "Stop not active")
    /\ UNCHANGED <<active_stops, active_keys, active_rank_notes, emitted,
                   physDown, input_alive,
                   running, scenario, reply>>

\* the replay reads active_keys once: held_keys = [... active_keys.keys() ...]
T_HeldKeys(t) ==
    /\ At(t, "held", {"activate_stop", "deactivate_stop"})
    /\ Goto(t, "send",
            IF threads[t].kind = "activate_stop"
            THEN sound_held_keys(threads[t].stop, active_keys).sends
            ELSE silence_held_keys(threads[t].stop, active_keys).sends)
    /\ UNCHANGED <<active_stops, active_keys, active_rank_notes, emitted,
                   lastOp, physDown, input_alive,
                   running, scenario, reply>>

\* the tail of _send_to_rank for the next message: send it, track it
T_Send(t) ==
    /\ At(t, "send", ThreadKinds)
    /\ threads[t].todo # << >>
    /\ emitted' = <<Head(threads[t].todo)>>
    /\ active_rank_notes' = TrackMessage(active_rank_notes, Head(threads[t].todo))
    /\ Goto(t, "send", Tail(threads[t].todo))
    /\ UNCHANGED <<active_stops, active_keys, lastOp, physDown, input_alive,
                   running, scenario, reply>>

\* the end of deactivate_stop: self.active_stops.remove(internal_id); a
\* KeyError (the stop already removed by another thread) changes nothing
T_Remove(t) ==
    /\ At(t, "send", {"deactivate_stop"})
    /\ threads[t].todo = << >>
    /\ active_stops' = active_stops \ {threads[t].stop}
    /\ threads' = [threads EXCEPT ![t] = IdleThread]
    /\ UNCHANGED <<active_keys, active_rank_notes, emitted, lastOp, physDown,
                   input_alive,
                   running, scenario, reply>>

\* the end of the other operations
T_Return(t) ==
    /\ At(t, "send", ThreadKinds \ {"deactivate_stop"})
    /\ threads[t].todo = << >>
    /\ threads' = [threads EXCEPT ![t] = IdleThread]
    /\ UNCHANGED <<active_stops, active_keys, active_rank_notes, emitted,
                   lastOp, physDown, input_alive,
                   running, scenario, reply>>

NextThreads ==
    \/ \E key \in ThreadKeys, msg \in ThreadMessages : T_TrackKey("input", key, msg)
    \/ \E t \in Threads : T_ReadStops(t)
    \/ \E t \in Threads, stop_id \in ThreadStopIds : T_Activate(t, stop_id)
    \/ \E t \in Threads, stop_id \in ThreadStopIds : T_Deactivate(t, stop_id)
    \/ \E t \in Threads : T_HeldKeys(t)
    \/ \E t \in Threads : T_Send(t)
    \/ \E t \in Threads : T_Remove(t)
    \/ \E t \in Threads : T_Return(t)

SpecThreads == Init /\ [][NextThreads]_vars

-----------------------------------------------------------------------------
(* What the catalog says: the note a coupling gives for a played note, and *)
(* where it is sent.  Stated from the data model, used by the properties.  *)

Range(seq) == {seq[i] : i \in DOMAIN seq}

\* the catalog stop each facade id names (ids are matched case-insensitively)
NamedStop ==
       "GREAT_PRINCIPAL_8" :> <<"great", "GREAT_PRINCIPAL_8">>
    @@ "great_mixture" :> <<"great", "GREAT_MIXTURE">>
    @@ "SWELL_FLUTE_8" :> <<"swell", "swell_flute_8">>
    @@ "PEDAL_BOURDON_16" :> <<"pedal", "PEDAL_BOURDON_16">>
    @@ "PEDAL_RESULTANT_64" :> <<"pedal", "PEDAL_RESULTANT_64">>

CatalogStops == {NamedStop[id] : id \in DOMAIN NamedStop}

Couplings(stop) == Range(stops_config[stop[1]][stop[2]])

PitchKnown(c) == c.rank \in DOMAIN ranks /\ ranks[c.rank].c4_pitch_note # None

MappedNote(c, n) ==
    n + Get(c.transpose, 0) + Get(ranks[c.rank].c4_pitch_note, 0) - 60

\* the coupling maps played note n to an in-range note of a known rank
Maps(c, n) ==
    /\ PitchKnown(c)
    /\ \A lo \in ranks[c.rank].first_note : MappedNote(c, n) >= lo
    /\ \A hi \in ranks[c.rank].last_note : MappedNote(c, n) <= hi

\* the rank's address resolves to an open output
Resolves(c) == ResolveAddress(ranks[c.rank].midi_address) # None

Routes(c, n) == Maps(c, n) /\ Resolves(c)

\* the (output, channel, note) a routed coupling addresses
Target(c, n) ==
    LET a == CHOOSE x \in ResolveAddress(ranks[c.rank].midi_address) : TRUE
    IN  <<a.output, a.channel, MappedNote(c, n)>>

StopTargets(stop, n) == {Target(c, n) : c \in {x \in Couplings(stop) : Routes(x, n)}}

MsgTarget(m) == <<m.output, m.channel, m.note>>

EntryTarget(e) == <<e.output, e.channel, e.note>>

\* the notes held on a division
HeldNotes(keys, division) == {k[2] : k \in {x \in Range(keys) : x[1] = division}}

Targets(msgs) == {MsgTarget(m) : m \in Range(msgs)}

RECURSIVE SumOver(_, _, _)
SumOver(stop, notes, acc) ==
    IF notes = {} THEN acc
    ELSE LET n == CHOOSE x \in notes : TRUE
         IN  SumOver(stop, notes \ {n}, acc + Cardinality(StopTargets(stop, n)))

MidiNotes == 0..127

\* every note the stop routes for these played notes is a MIDI note
Sendable(stop, notes) ==
    \A n \in notes : \A t \in StopTargets(stop, n) : t[3] \in MidiNotes

\* the (stop, coupling index) pairs of these stops that route played note n
\* of the division to this (rank, note) pair
Mappers(pair, stops, division, n) ==
    {sc \in UNION {{<<st, i>> : i \in DOMAIN stops_config[st[1]][st[2]]} :
                      st \in {x \in stops : x[1] = division}} :
        /\ Routes(stops_config[sc[1][1]][sc[1][2]][sc[2]], n)
        /\ pair = <<stops_config[sc[1][1]][sc[1][2]][sc[2]].rank,
                    MappedNote(stops_config[sc[1][1]][sc[1][2]][sc[2]], n)>>}

\* some held key and some of these stops on its division map to (rank, note)
Covered(rank, note, stops, keys) ==
    \E k \in Range(keys) : \E st \in stops :
        /\ st[1] = k[1]
        /\ \E c \in Couplings(st) :
              Maps(c, k[2]) /\ c.rank = rank /\ MappedNote(c, k[2]) = note

\* the entries that some held key and some active stop of its division route to
Justified(stops, keys) ==
    UNION {StopTargets(p[1], p[2][2]) :
             p \in {q \in stops \X Range(keys) : q[1][1] = q[2][1]}}

\* the ranks no other catalog stop couples to
ExclusiveRanks(stop) ==
    {c.rank : c \in Couplings(stop)} \
        UNION {{c.rank : c \in Couplings(other)} : other \in CatalogStops \ {stop}}

\* this step is Actions.activate_stop(id) on a stop that was not active
ActivatesInactive(id) ==
    /\ lastOp'.kind = "activate_stop"
    /\ lastOp'.stop = id
    /\ NamedStop[id] \notin active_stops

\* this step is Actions.activate_stop(id) on a stop that was active
ActivatesActive(id) ==
    /\ lastOp'.kind = "activate_stop"
    /\ lastOp'.stop = id
    /\ NamedStop[id] \in active_stops

\* this step is Actions.deactivate_stop(id) on a stop that was active
DeactivatesActive(id) ==
    /\ lastOp'.kind = "deactivate_stop"
    /\ lastOp'.stop = id
    /\ NamedStop[id] \in active_stops

\* this step is Actions.deactivate_stop(id) on a stop that was not active
DeactivatesInactive(id) ==
    /\ lastOp'.kind = "deactivate_stop"
    /\ lastOp'.stop = id
    /\ NamedStop[id] \notin active_stops

\* this step is a key-down (from the input thread or simulated) that
\* reached the router; lastOp' names its division and note
KeyDownStep ==
    /\ lastOp'.kind \in {"key_down", "simulate_key_on"}
    /\ lastOp'.division \in DOMAIN stops_config
    /\ lastOp'.note \in MidiNotes

\* the (rank, note) pairs these stops route played note n of the division to
RoutedPairs(stops, division, n) ==
    UNION {{<<c.rank, MappedNote(c, n)>> : c \in {x \in Couplings(st) : Routes(x, n)}} :
             st \in {x \in stops : x[1] = division}}

-----------------------------------------------------------------------------
(* C1: retrigger law *)

\* C1 (retrigger law), as written, for the couplings whose output resolves
\* and whose note is a MIDI note: activating an inactive catalog stop S of
\* division D emits a note-on for every held key (D, n) on each coupling of
\* S that maps n to an in-range note of a known rank, and no command for
\* held keys of other divisions.
C1_RetriggerAsWritten ==
    [][\A id \in DOMAIN NamedStop :
         ActivatesInactive(id) =>
            /\ \A n \in HeldNotes(active_keys, NamedStop[id][1]) :
                 \A c \in Couplings(NamedStop[id]) :
                    (Routes(c, n) /\ MappedNote(c, n) \in MidiNotes) =>
                       \E m \in Range(emitted') :
                          /\ m.type = "note_on"
                          /\ m.rank = c.rank
                          /\ m.note = MappedNote(c, n)
            /\ \A m \in Range(emitted') :
                 \E n \in HeldNotes(active_keys, NamedStop[id][1]) :
                    \E c \in Couplings(NamedStop[id]) :
                       Maps(c, n) /\ m.rank = c.rank /\ m.note = MappedNote(c, n)]_vars

\* C1, the part the code keeps: when every note S routes for the held keys
\* of D is a MIDI note, the activation succeeds and emits exactly one
\* note-on per held key (D, n) and target S routes n to, and nothing else.
C1_RetriggerLaw ==
    [][\A id \in DOMAIN NamedStop :
         (/\ ActivatesInactive(id)
          /\ Sendable(NamedStop[id], HeldNotes(active_keys, NamedStop[id][1]))) =>
            /\ lastOp'.success
            /\ NamedStop[id] \in active_stops'
            /\ \A i \in DOMAIN emitted' : emitted'[i].type = "note_on"
            /\ Targets(emitted') =
                  UNION {StopTargets(NamedStop[id], n) :
                           n \in HeldNotes(active_keys, NamedStop[id][1])}
            /\ Len(emitted') =
                  SumOver(NamedStop[id],
                          HeldNotes(active_keys, NamedStop[id][1]), 0)]_vars

\* C1 witness: an activation aborted by an exception left a held key of the
\* division without its note-on
C1_Witness ==
    /\ lastOp.kind = "activate_stop"
    /\ lastOp.error = "exception"
    /\ \E k \in Range(active_keys) :
          /\ k[1] = "swell"
          /\ \E t \in StopTargets(<<"swell", "swell_flute_8">>, k[2]) :
                /\ t[3] \in MidiNotes
                /\ t \notin {EntryTarget(e) : e \in active_rank_notes}

-----------------------------------------------------------------------------
(* C2: deactivation silences what the stop sounded *)

\* C2, as written: deactivating an active stop S emits a note-off for every
\* (output, channel, rank note) S had sounding for a held key of its
\* division, removes those entries from active_rank_notes and S from
\* active_stops, and a rank fed only by S has no sounding note afterwards.
C2_DeactivateAsWritten ==
    [][\A id \in DOMAIN NamedStop :
         DeactivatesActive(id) =>
            /\ NamedStop[id] \notin active_stops'
            /\ \A n \in HeldNotes(active_keys, NamedStop[id][1]) :
                 \A t \in StopTargets(NamedStop[id], n) :
                    t \in {EntryTarget(e) : e \in active_rank_notes} =>
                       /\ \E m \in Range(emitted') :
                             m.type = "note_off" /\ MsgTarget(m) = t
                       /\ t \notin {EntryTarget(e) : e \in active_rank_notes'}
            /\ \A e \in active_rank_notes' :
                 e.rank \notin ExclusiveRanks(NamedStop[id])]_vars

\* C2, the part the code keeps: the same, when every note S routes for the
\* held keys of its division is a MIDI note.
C2_DeactivateSilences ==
    [][\A id \in DOMAIN NamedStop :
         (/\ DeactivatesActive(id)
          /\ Sendable(NamedStop[id], HeldNotes(active_keys, NamedStop[id][1]))) =>
            /\ lastOp'.success
            /\ NamedStop[id] \notin active_stops'
            /\ \A i \in DOMAIN emitted' : emitted'[i].type = "note_off"
            /\ Targets(emitted') =
                  UNION {StopTargets(NamedStop[id], n) :
                           n \in HeldNotes(active_keys, NamedStop[id][1])}
            /\ \A t \in Targets(emitted') :
                  t \notin {EntryTarget(e) : e \in active_rank_notes'}
            /\ \A e \in active_rank_notes' :
                 e.rank \notin ExclusiveRanks(NamedStop[id])]_vars

\* C2 witness: a deactivation aborted by an exception left the stop active
\* and a note of its own rank sounding
C2_Witness ==
    /\ lastOp.kind = "deactivate_stop"
    /\ lastOp.error = "exception"
    /\ <<"swell", "swell_flute_8">> \in active_stops
    /\ \E e \in active_rank_notes : e.rank = "R3"

-----------------------------------------------------------------------------
(* C3: deactivation and notes covered by other stops *)

\* C3, as written: deactivating stop S never emits a note-off for, nor
\* removes from active_rank_notes, a (rank, rank note) that another
\* still-active stop also maps a currently held key to.
C3_NoOverSilencing ==
    [][\A id \in DOMAIN NamedStop :
         DeactivatesActive(id) =>
            /\ \A m \in Range(emitted') :
                 m.type = "note_off" =>
                    ~Covered(m.rank, m.note,
                             active_stops' \ {NamedStop[id]}, active_keys)
            /\ \A e \in active_rank_notes \ active_rank_notes' :
                 ~Covered(e.rank, e.note,
                          active_stops' \ {NamedStop[id]}, active_keys)]_vars

\* C3 witness: a deactivation has silenced a note that a held key and a
\* stop that is still active map to
C3_Witness ==
    /\ lastOp.kind = "deactivate_stop"
    /\ lastOp.success
    /\ \E m \in Range(emitted) :
          /\ m.type = "note_off"
          /\ Covered(m.rank, m.note, active_stops, active_keys)
          /\ MsgTarget(m) \notin {EntryTarget(e) : e \in active_rank_notes}

-----------------------------------------------------------------------------
(* C4: active_rank_notes against held keys and active stops *)

\* C4, as written: an (output, channel, rank note) entry is in
\* active_rank_notes if and only if some held key combined with an active
\* stop of its division maps to it (in range, known rank, resolvable
\* output); stated for the MIDI notes.
C4_SoundingIffMapped ==
    {EntryTarget(e) : e \in active_rank_notes} =
        {t \in Justified(active_stops, active_keys) : t[3] \in MidiNotes}

\* C4 witness: a held key and an active stop of the great (whose ranks
\* take every note they are routed) map to an entry that is not in
\* active_rank_notes, after a key release
C4_Witness ==
    /\ lastOp.kind = "key_up"
    /\ lastOp.success
    /\ \E t \in Justified(active_stops, active_keys) :
          /\ t[1] = "fluidsynth"
          /\ t \notin {EntryTarget(e) : e \in active_rank_notes}

-----------------------------------------------------------------------------
(* C5: mutual exclusion of the threads' operations *)

\* C5, as written: the operations of the input thread, the command thread
\* and the API thread are mutually exclusive on the shared state: at most
\* one thread is inside a stop toggle or a key event at any time.
C5_MutualExclusion ==
    Cardinality({t \in Threads : threads[t].pc # "idle"}) <= 1

\* C5 witness: every operation has returned, no key is held, no stop is
\* active, and a rank note is still sounding (a key went down between the
\* reading of the held keys and the removal of the stop)
C5_Witness ==
    /\ \A t \in Threads : threads[t].pc = "idle"
    /\ active_keys = << >>
    /\ active_stops = {}
    /\ active_rank_notes # {}

-----------------------------------------------------------------------------
(* C6: deduplication within one key-down *)

\* C6 (dedup law), as written, for the pairs whose output resolves and whose
\* note is a MIDI note: within one key-down, when two or more (active stop,
\* coupling) of the division map the played note to the same (rank_id, rank
\* note), exactly one note-on is emitted for that pair.
C6_DedupAsWritten ==
    [][KeyDownStep =>
         \A pair \in RoutedPairs(active_stops, lastOp'.division, lastOp'.note) :
            (/\ pair[2] \in MidiNotes
             /\ Cardinality(Mappers(pair, active_stops,
                                    lastOp'.division, lastOp'.note)) >= 2) =>
               Cardinality({i \in DOMAIN emitted' :
                              /\ emitted'[i].type = "note_on"
                              /\ emitted'[i].rank = pair[1]
                              /\ emitted'[i].note = pair[2]}) = 1]_vars

\* C6, the part the code keeps: no (rank_id, rank note) gets more than one
\* note-on within one key-down, and a pair that some active stop of the
\* division routes the played note to gets exactly one when every note
\* routed for the event is a MIDI note.
C6_DedupLaw ==
    [][KeyDownStep =>
         /\ \A i \in DOMAIN emitted' : \A j \in DOMAIN emitted' :
               (/\ emitted'[i].rank = emitted'[j].rank
                /\ emitted'[i].note = emitted'[j].note) => i = j
         /\ (\A st \in active_stops :
                st[1] = lastOp'.division => Sendable(st, {lastOp'.note})) =>
               \A pair \in RoutedPairs(active_stops, lastOp'.division,
                                        lastOp'.note) :
                  \E i \in DOMAIN emitted' :
                     /\ emitted'[i].type = "note_on"
                     /\ emitted'[i].rank = pair[1]
                     /\ emitted'[i].note = pair[2]]_vars

\* C6 witness: a key-down aborted by an exception emitted no note-on for a
\* pair that two couplings of the active stop map the played note to
C6_Witness ==
    /\ lastOp.kind = "key_down"
    /\ lastOp.error = "exception"
    /\ \E note \in MidiNotes :
          /\ Cardinality(Mappers(<<"R3", note>>, active_stops,
                                 lastOp.division, lastOp.note)) >= 2
          /\ \A i \in DOMAIN emitted : emitted[i].note # note

-----------------------------------------------------------------------------
(* C7: a division without an active stop is silent *)

\* C7: a key-down on a division that has no active stop emits no command
\* and adds no entry to active_rank_notes, whatever stops are active on
\* other divisions.
C7_SilentDivision ==
    [][(/\ KeyDownStep
        /\ \A st \in active_stops : st[1] # lastOp'.division) =>
            /\ emitted' = << >>
            /\ active_rank_notes' = active_rank_notes]_vars

\* C7 witness: a key went down on the swell with only great stops active
C7_Witness ==
    /\ lastOp.kind = "key_down"
    /\ lastOp.division = "swell"
    /\ <<"swell", lastOp.note>> \in Range(active_keys)
    /\ active_stops # {}
    /\ \A st \in active_stops : st[1] = "great"
    /\ emitted = << >>

-----------------------------------------------------------------------------
(* C8: activating an active stop *)

\* C8: activating a stop that is already active emits no command and leaves
\* active_stops, active_keys and active_rank_notes unchanged.
C8_ActivateActiveNoOp ==
    [][\A id \in DOMAIN NamedStop :
         ActivatesActive(id) =>
            /\ emitted' = << >>
            /\ active_stops' = active_stops
            /\ active_keys' = active_keys
            /\ active_rank_notes' = active_rank_notes]_vars

\* C8 witness: an activation with a great key held emitted nothing (an
\* activation of an inactive great stop retriggers key 60)
C8_Witness ==
    /\ lastOp.kind = "activate_stop"
    /\ lastOp.stop = "GREAT_PRINCIPAL_8"
    /\ lastOp.success
    /\ <<"great", 60>> \in Range(active_keys)
    /\ emitted = << >>

-----------------------------------------------------------------------------
(* C9: deactivating an inactive stop *)

\* C9: deactivating a catalog stop that is not active reports non-success
\* with 'Stop not active' (no exception), emits no command and leaves
\* active_stops, active_keys and active_rank_notes unchanged.
C9_DeactivateInactive ==
    [][\A id \in DOMAIN NamedStop :
         DeactivatesInactive(id) =>
            /\ ~lastOp'.success
            /\ lastOp'.error = "Stop not active"
            /\ emitted' = << >>
            /\ active_stops' = active_stops
            /\ active_keys' = active_keys
            /\ active_rank_notes' = active_rank_notes]_vars

\* C9 witness: 'Stop not active' was reported while a key of the stop's
\* division was held and sounding through another stop
C9_Witness ==
    /\ lastOp.kind = "deactivate_stop"
    /\ lastOp.stop = "great_mixture"
    /\ lastOp.error = "Stop not active"
    /\ <<"great", 60>> \in Range(active_keys)
    /\ active_rank_notes # {}

-----------------------------------------------------------------------------
(* C10: active_keys against the key events *)

\* C10: active_keys holds (division, note) exactly when the last key event
\* for that pair was a key-down, whatever stops were active at the events.
C10_HeldKeysExact ==
    {active_keys[i] : i \in DOMAIN active_keys} = physDown

\* C10 witness: a key was released with no stop active while another key,
\* pressed with no stop drawn on its division, stays recorded
C10_Witness ==
    /\ lastOp.kind = "key_up"
    /\ active_stops = {}
    /\ Len(active_keys) = 1
    /\ active_keys[1] \in physDown
    /\ <<lastOp.division, lastOp.note>> \notin physDown
-----------------------------------------------------------------------------
(* Panic, all-clear, clear_all_stops and shutdown                           *)

\* the control-change messages among msgs, as (output, channel, control, value)
ControlChanges(msgs) ==
    {<<msgs[i].output, msgs[i].channel, msgs[i].control, msgs[i].value>> :
        i \in {j \in DOMAIN msgs : msgs[j].type = "control_change"}}

\* C11: whenever panic has just run, it has sent CC 123, CC 120 and CC 121
\* (value 0) on each channel 0..15 of every output of the controller, and
\* the held keys and the sounding rank notes are empty, whatever stops are
\* active and whichever sends failed
C11_PanicBroadcastsAndClears ==
    lastOp.kind = "panic" =>
        /\ \A output \in midi_outputs, channel \in 0..15,
              control \in {123, 120, 121} :
                <<output, channel, control, 0>> \in ControlChanges(emitted)
        /\ active_keys = << >>
        /\ active_rank_notes = {}

\* a panic with stops drawn and keys physically down, one send of which failed
C11_Witness ==
    /\ lastOp.kind = "panic"
    /\ active_stops # {}
    /\ physDown # {}
    /\ \E i \in DOMAIN emitted : ~emitted[i].delivered

\* the note-off messages among msgs, as (output, channel, note)
NoteOffTargets(msgs) ==
    {MsgTarget(msgs[i]) : i \in {j \in DOMAIN msgs : msgs[j].type = "note_off"}}

\* every note the active stops route for the held keys is a MIDI note
AllSendable(stops, keys) ==
    \A st \in stops : Sendable(st, HeldNotes(keys, st[1]))

\* C12, as written, for the couplings whose output resolves and whose note
\* is a MIDI note: after the facade's all-clear no stop is active, and for
\* every held key a note-off was emitted for each (rank, note) that each
\* previously active stop of the key's division mapped it to.
C12_AllClearAsWritten ==
    [][lastOp'.kind = "all_clear" =>
         /\ active_stops' = {}
         /\ \A st \in active_stops :
              \A n \in HeldNotes(active_keys, st[1]) :
                 \A t \in StopTargets(st, n) :
                    t[3] \in MidiNotes => t \in NoteOffTargets(emitted')]_vars

\* C12, the part the code keeps: the same, when every note the active stops
\* route for the held keys is a MIDI note; then all-clear succeeds and emits
\* note-offs only, exactly for those targets, whose entries are gone.
C12_AllClearLaw ==
    [][(lastOp'.kind = "all_clear" /\ AllSendable(active_stops, active_keys)) =>
         /\ lastOp'.success
         /\ active_stops' = {}
         /\ \A i \in DOMAIN emitted' : emitted'[i].type = "note_off"
         /\ Targets(emitted') = Justified(active_stops, active_keys)
         /\ \A t \in Targets(emitted') :
               t \notin {EntryTarget(e) : e \in active_rank_notes'}]_vars

\* C12 witness: an all-clear aborted by an exception left a stop drawn
C12_Witness ==
    /\ lastOp.kind = "all_clear"
    /\ lastOp.error = "exception"
    /\ active_stops # {}
    /\ active_keys # << >>

\* an all-clear with two stops drawn on the division of a held key
C12_LawWitness ==
    /\ lastOp.kind = "all_clear"
    /\ lastOp.success
    /\ Len(emitted) >= 2
    /\ active_stops = {}
    /\ active_keys # << >>

\* C13, as written: when StopRouter.clear_all_stops empties the active
\* stops while keys are held, a note-off is emitted for every sounding note
\* the cleared stops routed a held key to, and its entry leaves
\* active_rank_notes.
C13_ClearAllNotSilent ==
    [][lastOp'.kind = "clear_all_stops" =>
         /\ active_stops' = {}
         /\ \A t \in Justified(active_stops, active_keys) :
               t \in {EntryTarget(e) : e \in active_rank_notes} =>
                  /\ t \in NoteOffTargets(emitted')
                  /\ t \notin {EntryTarget(e) : e \in active_rank_notes'}]_vars

\* C13 witness: clear_all_stops has emptied the active stops with a key
\* held, nothing was emitted and a rank note is still registered as sounding
C13_Witness ==
    /\ lastOp.kind = "clear_all_stops"
    /\ active_stops = {}
    /\ active_keys # << >>
    /\ emitted = << >>
    /\ \E e \in active_rank_notes :
          \E k \in Range(active_keys) :
             EntryTarget(e) \in StopTargets(<<"great", "GREAT_PRINCIPAL_8">>, k[2])

\* C14, as written: when OrganController.stop() completes, every rank note
\* that was in active_rank_notes has been sent a note-off, or an
\* all-notes-off (CC 123) on its output and channel.
C14_ShutdownDrains ==
    [][lastOp'.kind = "stop" =>
         \A e \in active_rank_notes :
            \/ EntryTarget(e) \in NoteOffTargets(emitted')
            \/ <<e.output, e.channel, 123, 0>> \in ControlChanges(emitted')]_vars

\* C14 witness: the controller has stopped, nothing was sent and a rank
\* note is still registered as sounding
C14_Witness ==
    /\ lastOp.kind = "stop"
    /\ ~running
    /\ emitted = << >>
    /\ active_rank_notes # {}

-----------------------------------------------------------------------------
(* End-to-end scenario and the laws of routing                              *)

\* C15: on a controller that has just started, the sequence activate
\* GREAT_PRINCIPAL_8, key down (great, 60, 100), key up (great, 60),
\* deactivate GREAT_PRINCIPAL_8, key down (great, 60) emits, step by step:
\* nothing; exactly one note-on to R1 at note 60 with velocity 100; exactly
\* one note-off to R1 at note 60; nothing; nothing. Every step succeeds and
\* nothing is left sounding at the end.
C15_EndToEnd ==
    /\ scenario \in 0..5
    /\ scenario >= 1 => lastOp.success
    /\ scenario \in {1, 4, 5} => emitted = << >>
    /\ scenario = 2 =>
          /\ emitted = <<[type |-> "note_on", output |-> "fluidsynth",
                          channel |-> 0, note |-> 60, velocity |-> 100,
                          rank |-> "R1"]>>
          /\ active_rank_notes = {[output |-> "fluidsynth", channel |-> 0,
                                   note |-> 60, rank |-> "R1"]}
    /\ scenario = 3 =>
          /\ Len(emitted) = 1
          /\ emitted[1].type = "note_off"
          /\ emitted[1].rank = "R1"
          /\ emitted[1].note = 60
          /\ active_rank_notes = {}
    /\ scenario \in {4, 5} => active_stops = {} /\ active_rank_notes = {}

\* C15 witness: the five steps have just been performed, the last one with
\* the key going down on a division without stops
C15_Witness ==
    /\ scenario = 5
    /\ lastOp.kind = "key_down"
    /\ active_keys = <<<<"great", 60>>>>

\* the note messages among msgs
NoteMessages(msgs) ==
    {msgs[i] : i \in {j \in DOMAIN msgs : msgs[j].type \in {"note_on", "note_off"}}}

\* the note is not below the rank's first_note nor above its last_note; an
\* absent bound excludes nothing
WithinBounds(rank, note) ==
    /\ \A lo \in ranks[rank].first_note : note >= lo
    /\ \A hi \in ranks[rank].last_note : note <= hi

\* the rank lacks a bound
Unbounded(rank) == ranks[rank].first_note = None \/ ranks[rank].last_note = None

\* the targets on ranks lacking a bound that the stop routes played note n to
UnboundedTargets(stop, n) ==
    {Target(c, n) : c \in {x \in Couplings(stop) : Routes(x, n) /\ Unbounded(x.rank)}}

\* this step is a key event that reached the router and did not raise
KeyEventStep ==
    /\ lastOp'.kind \in {"key_down", "key_up"}
    /\ lastOp'.success

\* this step is a stop toggle that replayed the held keys and did not raise
ReplayStep(id) ==
    /\ ActivatesInactive(id) \/ DeactivatesActive(id)
    /\ lastOp'.success

C16_UnboundedWitness ==
    /\ lastOp.kind = "activate_stop"
    /\ lastOp.success
    /\ \E m \in Range(emitted) : m.rank = "R3" /\ m.note = 112

\* max(velocity_min, min(velocity_max, v)) with the bounds of coupling c,
\* 1 and 127 where it has none
Clamped(c, v) ==
    LET lo == Get(c.velocity_min, 1)
        hi == Get(c.velocity_max, 127)
        capped == IF v <= hi THEN v ELSE hi
    IN  IF lo >= capped THEN lo ELSE capped

\* the velocities with which a routed coupling of these stops may address the
\* target when played note n comes in with velocity v
CouplingVelocities(stops, n, target, v) ==
    {Clamped(c, v) :
        c \in {x \in UNION {Couplings(st) : st \in stops} :
                  Routes(x, n) /\ Target(x, n) = target}}

\* the velocities a replay of the stop may use for the target: the held
\* notes of its division come in at the default velocity 64
ReplayVelocities(stop, keys, target) ==
    UNION {CouplingVelocities({stop}, n, target, 64) :
             n \in HeldNotes(keys, stop[1])}

\* the couplings of these stops whose velocity bounds are equal
FixedCouplings(stops) ==
    {c \in UNION {Couplings(st) : st \in stops} :
        c.velocity_min # None /\ c.velocity_min = c.velocity_max}

\* C17 (velocity law): every note-on emitted carries the velocity
\* max(velocity_min, min(velocity_max, input velocity)) of a coupling that
\* routes the key to its target, the input velocity being that of the
\* key-down, or the default 64 in the replay of an activation; a coupling
\* with equal bounds turns every input velocity 1..127 into that bound;
\* bounds 20..100 turn 10 into 20 and 127 into 100; every note-off carries
\* velocity 0, whatever the bounds.
C17_VelocityLaw ==
    [][/\ \A m \in NoteMessages(emitted') :
            IF m.type = "note_off" THEN m.velocity = 0
            ELSE \/ /\ lastOp'.kind = "key_down"
                    /\ m.velocity \in
                          CouplingVelocities(
                             ActiveDivisionStops(active_stops, lastOp'.division),
                             lastOp'.note, MsgTarget(m), lastOp'.velocity)
                 \/ /\ lastOp'.kind = "activate_stop"
                    /\ lastOp'.stop \in DOMAIN NamedStop
                    /\ m.velocity \in
                          ReplayVelocities(NamedStop[lastOp'.stop], active_keys,
                                           MsgTarget(m))
       /\ lastOp'.kind = "key_down" =>
             \A c \in FixedCouplings(
                         ActiveDivisionStops(active_stops, lastOp'.division)) :
                \A v \in 1..127 :
                   ClampVelocity(c, v) = Get(c.velocity_min, 0)
       /\ \A m \in NoteMessages(emitted') :
             (m.type = "note_on" /\ m.rank = "R2" /\ lastOp'.kind = "key_down") =>
                /\ lastOp'.velocity = 10 => m.velocity = 20
                /\ lastOp'.velocity = 127 => m.velocity = 100
      ]_vars

\* C17 witness: key (great, 60) went down at velocity 10 with only
\* GREAT_MIXTURE drawn: R1:60 at the fixed velocity 80, R2:36 at 20
C17_Witness ==
    /\ lastOp.kind = "key_down"
    /\ lastOp.velocity = 10
    /\ active_stops = {<<"great", "GREAT_MIXTURE">>}
    /\ \E m \in Range(emitted) :
          m.type = "note_on" /\ m.rank = "R1" /\ m.note = 60 /\ m.velocity = 80
    /\ \E m \in Range(emitted) :
          m.type = "note_on" /\ m.rank = "R2" /\ m.velocity = 20

\* the same key at velocity 127: R2:36 at 100
C17_UpperWitness ==
    /\ lastOp.kind = "key_down"
    /\ lastOp.velocity = 127
    /\ \E m \in Range(emitted) :
          m.type = "note_on" /\ m.rank = "R2" /\ m.velocity = 100

\* a deactivation silenced the fixed-velocity coupling with velocity 0
C17_NoteOffWitness ==
    /\ lastOp.kind = "deactivate_stop"
    /\ \E m \in Range(emitted) :
          m.type = "note_off" /\ m.rank = "R1" /\ m.velocity = 0

\* played_note + transpose + (pitch_reference - 60)
PitchFormula(played_note, transpose, pitch_reference) ==
    played_note + transpose + (pitch_reference - 60)

\* the (rank, note) pairs the formula gives for played note n on the
\* couplings of these stops whose rank has a pitch reference
FormulaPairs(stops, n) ==
    {<<c.rank, PitchFormula(n, Get(c.transpose, 0),
                            Get(ranks[c.rank].c4_pitch_note, 0))>> :
        c \in {x \in UNION {Couplings(st) : st \in stops} : PitchKnown(x)}}

\* the same, for the couplings that route the note
RoutedFormulaPairs(stops, n) ==
    {<<c.rank, PitchFormula(n, Get(c.transpose, 0),
                            Get(ranks[c.rank].c4_pitch_note, 0))>> :
        c \in {x \in UNION {Couplings(st) : st \in stops} : Routes(x, n)}}

\* the (rank, note) pairs of the note messages among msgs
SentPairs(msgs) == {<<m.rank, m.note>> : m \in NoteMessages(msgs)}

\* this step is a key event that reached the router
RoutedKeyStep == lastOp'.kind \in {"key_down", "key_up"}

\* this step is a stop toggle that replays the held keys
ToggleStep(id) == ActivatesInactive(id) \/ DeactivatesActive(id)

\* C18 (pitch formula): in key-down, key-up and stop-toggle replay alike,
\* every note sent to a rank is played_note + transpose + (pitch_reference -
\* 60) for the played (or held) note and a coupling of a stop concerned, and
\* an operation that did not raise sends exactly the values of the formula
\* for the couplings that route the note; no other operation sends a note.
C18_PitchFormula ==
    [][/\ RoutedKeyStep =>
             /\ SentPairs(emitted') \subseteq
                   FormulaPairs(ActiveDivisionStops(active_stops, lastOp'.division),
                                lastOp'.note)
             /\ lastOp'.success =>
                   SentPairs(emitted') =
                      RoutedFormulaPairs(
                         ActiveDivisionStops(active_stops, lastOp'.division),
                         lastOp'.note)
       /\ \A id \in DOMAIN NamedStop :
             ToggleStep(id) =>
                /\ SentPairs(emitted') \subseteq
                      UNION {FormulaPairs({NamedStop[id]}, n) :
                               n \in HeldNotes(active_keys, NamedStop[id][1])}
                /\ lastOp'.success =>
                      SentPairs(emitted') =
                         UNION {RoutedFormulaPairs({NamedStop[id]}, n) :
                                  n \in HeldNotes(active_keys, NamedStop[id][1])}
       /\ (/\ ~RoutedKeyStep
           /\ \A id \in DOMAIN NamedStop : ~ToggleStep(id)) =>
             SentPairs(emitted') = {}
      ]_vars

\* C18 witness: key (great, 60) went up with only GREAT_MIXTURE drawn: the
\* note-offs go to R1:60 (transpose 0, reference 60), R2:36 (reference 36)
\* and R1:72 (transpose +12)
C18_Witness ==
    /\ lastOp.kind = "key_up"
    /\ lastOp.note = 60
    /\ active_stops = {<<"great", "GREAT_MIXTURE">>}
    /\ SentPairs(emitted) = {<<"R1", 60>>, <<"R2", 36>>, <<"R1", 72>>}

\* a replay sent the values of the formula for a held key
C18_ReplayWitness ==
    /\ lastOp.kind = "activate_stop"
    /\ lastOp.stop = "great_mixture"
    /\ SentPairs(emitted) = {<<"R1", 60>>, <<"R2", 36>>, <<"R1", 72>>}

\* how many times the key occurs among the held keys
Occurrences(keys, key) == Cardinality({i \in DOMAIN keys : keys[i] = key})

\* no two entries for one (output, channel, note)
OnePerTarget(rank_notes) ==
    \A e1, e2 \in rank_notes : EntryTarget(e1) = EntryTarget(e2) => e1 = e2

\* C19: a key-down (from the device or simulated) for a key that is already
\* held leaves exactly one active_keys entry for the key and at most one
\* active_rank_notes entry per (output, channel, note); the held keys are
\* the same as before.
C19_RepeatedKeyDown ==
    [][(/\ KeyDownStep
        /\ <<lastOp'.division, lastOp'.note>> \in Range(active_keys)) =>
          /\ Occurrences(active_keys', <<lastOp'.division, lastOp'.note>>) = 1
          /\ active_keys' = active_keys
          /\ OnePerTarget(active_rank_notes')]_vars

\* C19 witness: a key-down has just sent note-ons for a key that was held
\* before another key went down, and its notes are registered once
C19_Witness ==
    /\ lastOp.kind = "key_down"
    /\ Len(active_keys) = 2
    /\ active_keys[1] = <<lastOp.division, lastOp.note>>
    /\ emitted # << >>
    /\ \A m \in Range(emitted) :
          Cardinality({e \in active_rank_notes : EntryTarget(e) = MsgTarget(m)}) = 1

-----------------------------------------------------------------------------
(* Unknown stop ids                                                         *)

\* no catalog stop has this id, compared case-insensitively
MatchesNoStop(id) == \A sid \in stop_index : Upper(sid) # Upper(id)

\* this step is a facade call to activate or deactivate a stop
StopCallStep == lastOp'.kind \in {"activate_stop", "deactivate_stop"}

\* C20: activating or deactivating a stop id that matches no catalog stop,
\* compared case-insensitively, fails with 'Unknown stop', emits no command
\* and leaves active_stops, active_keys and active_rank_notes unchanged; an
\* id that differs from a catalog id by case only is not unknown.
C20_UnknownStop ==
    [][StopCallStep =>
         IF MatchesNoStop(lastOp'.stop)
         THEN /\ ~lastOp'.success
              /\ lastOp'.error = "Unknown stop"
              /\ emitted' = << >>
              /\ UNCHANGED <<active_stops, active_keys, active_rank_notes>>
         ELSE lastOp'.error # "Unknown stop"]_vars

\* C20 witness: a call with an unknown id has just failed while stops were
\* drawn, keys held and notes sounding
C20_Witness ==
    /\ lastOp.kind \in {"activate_stop", "deactivate_stop"}
    /\ lastOp.stop = "NO_SUCH_STOP"
    /\ lastOp.error = "Unknown stop"
    /\ active_stops # {}
    /\ active_keys # << >>
    /\ active_rank_notes # {}

-----------------------------------------------------------------------------
(* The action facade: spellings, rejected arguments, results, queries      *)

\* the catalog stop each spelling of a stop id names
SpelledStop ==
       "GREAT_PRINCIPAL_8" :> <<"great", "GREAT_PRINCIPAL_8">>
    @@ "great_principal_8" :> <<"great", "GREAT_PRINCIPAL_8">>
    @@ "Great_Mixture" :> <<"great", "GREAT_MIXTURE">>
    @@ "SWELL_FLUTE_8" :> <<"swell", "swell_flute_8">>
    @@ "swell_flute_8" :> <<"swell", "swell_flute_8">>

\* C21: through the facade, activating a stop under any spelling of a
\* catalog id (upper case, lower case or mixed, for catalog ids written in
\* upper or in lower case) adds that catalog stop and no other to the active
\* stops; deactivating it removes that stop and no other when it was active
\* and the call succeeded, and changes nothing otherwise; the id is never
\* reported unknown.
C21_AnySpelling ==
    [][\A id \in DOMAIN SpelledStop :
         /\ (lastOp'.kind = "activate_stop" /\ lastOp'.stop = id) =>
               /\ active_stops' = active_stops \cup {SpelledStop[id]}
               /\ lastOp'.error # "Unknown stop"
         /\ (lastOp'.kind = "deactivate_stop" /\ lastOp'.stop = id) =>
               /\ lastOp'.error # "Unknown stop"
               /\ lastOp'.success = (/\ SpelledStop[id] \in active_stops
                                     /\ lastOp'.error # "exception")
               /\ active_stops' = IF lastOp'.success
                                  THEN active_stops \ {SpelledStop[id]}
                                  ELSE active_stops]_vars

\* C21 witness: the lower-case spelling has just drawn the stop the catalog
\* calls GREAT_PRINCIPAL_8, which was not drawn before (held keys were
\* replayed through it)
C21_Witness ==
    /\ lastOp.kind = "activate_stop"
    /\ lastOp.stop = "great_principal_8"
    /\ lastOp.success
    /\ <<"great", "GREAT_PRINCIPAL_8">> \in active_stops
    /\ emitted # << >>

\* the upper-case spelling has just cancelled the stop the catalog calls
\* swell_flute_8
C21_LowerCatalogWitness ==
    /\ lastOp.kind = "deactivate_stop"
    /\ lastOp.stop = "SWELL_FLUTE_8"
    /\ lastOp.success
    /\ <<"swell", "swell_flute_8">> \notin active_stops

\* this step is a simulated key-down or key-up
SimulateStep == lastOp'.kind \in {"simulate_key_on", "simulate_key_off"}

\* the call was rejected: an error result, nothing sent, nothing changed
Rejected ==
    /\ ~lastOp'.success
    /\ lastOp'.error \in {"Invalid manual", "Invalid note"}
    /\ emitted' = << >>
    /\ UNCHANGED <<active_keys, active_rank_notes, active_stops>>

\* C22, as written: a simulated key-down or key-up with a division code
\* outside {G, S, C, P} or a note outside 0..127 is rejected with an error
\* result: no command is emitted and the held keys, the sounding rank notes
\* and the active stops are unchanged.
C22_RejectAsWritten ==
    [][(/\ SimulateStep
        /\ \/ reply'.manual \notin {"G", "S", "C", "P"}
           \/ lastOp'.note \notin 0..127) => Rejected]_vars

\* C22, amended: the same for a division code that is none of G, S, C, P in
\* either letter case, or a note outside 0..127; a lower-case code is
\* accepted as the division of its upper-case letter.
C22_RejectInvalid ==
    [][SimulateStep =>
         IF \/ reply'.manual \notin {"G", "S", "C", "P", "g", "s", "c", "p"}
            \/ lastOp'.note \notin 0..127
         THEN Rejected
         ELSE /\ lastOp'.error \notin {"Invalid manual", "Invalid note"}
              /\ lastOp'.division =
                    CASE reply'.manual \in {"G", "g"} -> "great"
                      [] reply'.manual \in {"S", "s"} -> "swell"
                      [] reply'.manual \in {"C", "c"} -> "choir"
                      [] reply'.manual \in {"P", "p"} -> "pedal"]_vars

\* C22 witness: a simulated key with the division code X has just been
\* rejected while stops were drawn, keys held and notes sounding
C22_Witness ==
    /\ lastOp.kind \in {"simulate_key_on", "simulate_key_off"}
    /\ reply.manual = "X"
    /\ lastOp.error = "Invalid manual"
    /\ active_stops # {}
    /\ active_keys # << >>
    /\ active_rank_notes # {}

\* a simulated key with note 128 has just been rejected
C22_NoteWitness ==
    /\ lastOp.kind = "simulate_key_on"
    /\ lastOp.note = 128
    /\ lastOp.error = "Invalid note"
    /\ active_keys # << >>

\* the lower-case code p has just put a pedal key down
C22_LowerCaseWitness ==
    /\ lastOp.kind = "simulate_key_on"
    /\ reply.manual = "p"
    /\ lastOp.success
    /\ <<"pedal", 40>> \in Range(active_keys)

\* the operations of the facade
FacadeKinds ==
    {"activate_stop", "deactivate_stop", "all_clear", "panic", "list_stops",
     "get_active_stops", "get_status", "get_state", "simulate_key_on",
     "simulate_key_off"}

\* C23: every operation of the facade, from every reachable state and with
\* every argument, ends with a result that carries a success flag and, when
\* the flag is false, an error message, and with an empty error when it is
\* true; no exception leaves it: the controller keeps running and the input
\* loop is as alive as it was.
C23_StructuredResult ==
    [][lastOp'.kind \in FacadeKinds =>
         /\ lastOp'.success \in BOOLEAN
         /\ lastOp'.success = (lastOp'.error = "")
         /\ running'
         /\ input_alive' = input_alive]_vars

\* C23 witness: a simulated key-down whose routing raised has just returned
\* an error result, and the input loop is still alive
C23_Witness ==
    /\ lastOp.kind = "simulate_key_on"
    /\ ~lastOp.success
    /\ lastOp.error = "exception"
    /\ input_alive
    /\ running

\* an all-clear whose replay raised has just returned an error result
C23_AllClearWitness ==
    /\ lastOp.kind = "all_clear"
    /\ lastOp.error = "exception"
    /\ running


-----------------------------------------------------------------------------
(* Couplings that cannot be routed                                          *)

\* the coupling cannot be routed: its rank is unknown or has no pitch
\* reference, or the rank's address is missing, malformed or names no open
\* output
Unroutable(c) == ~PitchKnown(c) \/ ~Resolves(c)

\* the ranks in the catalog of stops that no coupling can be routed to
UnroutableRanks ==
    {c.rank : c \in {x \in UNION {Couplings(st) : st \in CatalogStops} :
                       Unroutable(x)}}

\* the (rank, note) pairs the couplings of these stops route played note n
\* to that are no MIDI note
UnsendablePairs(stops, n) ==
    {p \in RoutedFormulaPairs(stops, n) : p[2] \notin 0..127}

\* some coupling of these stops cannot be routed
HasUnroutable(stops) ==
    \E st \in stops : \E c \in Couplings(st) : Unroutable(c)

\* C24: within one key event or replay, a coupling that cannot be routed
\* (unknown rank, rank without pitch reference, missing or malformed
\* address, no open output for the address) is skipped on its own: no
\* message is emitted and no active_rank_notes entry is made for its rank,
\* the event does not fail on its account (a key event fails only when a
\* routed note is no MIDI note), and an event that did not fail sends a
\* message for every coupling of the same stops that routes the note.
C24_SkippedAlone ==
    [][/\ \A m \in NoteMessages(emitted') : m.rank \notin UnroutableRanks
       /\ \A e \in active_rank_notes' : e.rank \notin UnroutableRanks
       /\ RoutedKeyStep =>
             /\ lastOp'.success =
                   (UnsendablePairs(ActiveDivisionStops(active_stops,
                                                        lastOp'.division),
                                    lastOp'.note) = {})
             /\ lastOp'.success =>
                   SentPairs(emitted') =
                      RoutedFormulaPairs(
                         ActiveDivisionStops(active_stops, lastOp'.division),
                         lastOp'.note)
       /\ \A id \in DOMAIN NamedStop :
             ToggleStep(id) =>
                /\ lastOp'.success =
                      (\A n \in HeldNotes(active_keys, NamedStop[id][1]) :
                          UnsendablePairs({NamedStop[id]}, n) = {})
                /\ lastOp'.success =>
                      SentPairs(emitted') =
                         UNION {RoutedFormulaPairs({NamedStop[id]}, n) :
                                  n \in HeldNotes(active_keys, NamedStop[id][1])}
      ]_vars

\* C24 witness: key (swell, 100) went down with swell_flute_8 drawn, whose
\* couplings to RX, RNOC4, RNOADDR, RCLOSED, RNOLABEL, RSHORT and RBADCH
\* cannot be routed: the key event succeeded and sent exactly the notes of
\* the couplings to R3 that follow them
C24_Witness ==
    /\ lastOp.kind = "key_down"
    /\ lastOp.division = "swell"
    /\ lastOp.note = 100
    /\ lastOp.success
    /\ HasUnroutable({<<"swell", "swell_flute_8">>})
    /\ UnroutableRanks = {"RX", "RNOC4", "RNOADDR", "RCLOSED", "RNOLABEL",
                          "RSHORT", "RBADCH"}
    /\ <<"swell", "swell_flute_8">> \in active_stops
    /\ SentPairs(emitted) = {<<"R3", 112>>, <<"R3", 88>>}
    /\ {e.rank : e \in active_rank_notes} \subseteq {"R1", "R2", "R3"}

\* the replay of a held swell key through swell_flute_8 sent the notes of
\* the couplings to R3
C24_ReplayWitness ==
    /\ lastOp.kind = "activate_stop"
    /\ lastOp.stop = "SWELL_FLUTE_8"
    /\ lastOp.success
    /\ SentPairs(emitted) = {<<"R3", 112>>, <<"R3", 88>>}


-----------------------------------------------------------------------------
(* A rank note outside 0..127 on a rank without note range                  *)

\* the (rank, note) pairs the couplings of these stops route played note n
\* to that are MIDI notes
SendablePairs(stops, n) ==
    {p \in RoutedFormulaPairs(stops, n) : p[2] \in 0..127}

-----------------------------------------------------------------------------
(* The stop board                                                           *)

\* this step handled a message of the stop board for the mapped note n
StopBoardStep(n, type) ==
    /\ reply'.message.type = type
    /\ reply'.message.channel = stop_channel
    /\ reply'.message.note = n

\* C26, as written: a note-on (of a velocity above 0) on the stop-board
\* channel for a note of the stop-mapping table makes the mapped stop a member of active_stops; a
\* note-off for that note removes it again.
C26_StopBoardToggles ==
    [][\A n \in DOMAIN stop_mappings :
         /\ (StopBoardStep(n, "note_on") /\ reply'.message.velocity > 0) =>
               stop_mappings[n] \in active_stops'
         /\ StopBoardStep(n, "note_off") =>
               stop_mappings[n] \notin active_stops']_vars

\* C26, what the code does: a message of the stop board for a mapped note
\* reaches the router under the id "division:STOP_ID", which names no stop
\* of the catalog: active_stops is unchanged and nothing is emitted.
C26_StopBoardInert ==
    [][\A n \in DOMAIN stop_mappings :
         \A type \in {"note_on", "note_off"} :
            StopBoardStep(n, type) =>
               /\ lastOp'.kind \in {"stop_draw", "stop_cancel"}
               /\ FindDivision(Join(stop_mappings[n][1], stop_mappings[n][2]),
                               1) = None
               /\ active_stops' = active_stops
               /\ emitted' = << >>]_vars

\* C26 witness: the note-on of the stop board for note 10, mapped to
\* great:GREAT_PRINCIPAL_8, has been handled with key (great, 60) held: the
\* stop is not active and nothing sounded
C26_Witness ==
    /\ lastOp.kind = "stop_draw"
    /\ reply.message = Msg("note_on", stop_channel, 10, 127)
    /\ stop_mappings[10] = <<"great", "GREAT_PRINCIPAL_8">>
    /\ <<"great", "GREAT_PRINCIPAL_8">> \notin active_stops
    /\ <<"great", 60>> \in Range(active_keys)
    /\ emitted = << >>

\* the note-off of the stop board for note 10 has been handled and the stop,
\* drawn through the facade, is still active
C26_CancelWitness ==
    /\ lastOp.kind = "stop_cancel"
    /\ reply.message = Msg("note_off", stop_channel, 10, 0)
    /\ <<"great", "GREAT_PRINCIPAL_8">> \in active_stops


-----------------------------------------------------------------------------
(* Discarded input                                                          *)

\* the message is no key event and no stop event of the input map: it is no
\* note message, or on a channel that is not configured, or a note outside
\* the key range of its manual or of the pedal, or a note of the stop board
\* that the mapping table does not hold
Discardable(msg) ==
    \/ msg.type \notin {"note_on", "note_off"}
    \/ msg.channel \notin DOMAIN manual_channels \cup {pedal_channel, stop_channel}
    \/ /\ msg.channel \in DOMAIN manual_channels
       /\ \/ msg.note < manual_ranges[msg.channel][1]
          \/ msg.note > manual_ranges[msg.channel][2]
    \/ /\ msg.channel = pedal_channel
       /\ msg.note < pedal_range[1] \/ msg.note > pedal_range[2]
    \/ /\ msg.channel = stop_channel
       /\ msg.note \notin DOMAIN stop_mappings

\* this step gave a message to the input mapper
MessageStep == reply'.message # NoMessage

\* C27: an input event that is no note-on/note-off, or is on a channel that
\* is not configured, or on a manual or pedal channel with a note outside
\* the configured key range, or on the stop-board channel with an unmapped
\* note, is discarded: no command is emitted and active_keys, active_stops
\* and active_rank_notes are unchanged (nor does the input loop end); every
\* other message reaches the handler of a key event or of a stop event.
C27_Discarded ==
    [][MessageStep =>
         IF Discardable(reply'.message)
         THEN /\ lastOp'.kind = "ignored"
              /\ emitted' = << >>
              /\ UNCHANGED <<active_keys, active_stops, active_rank_notes>>
              /\ input_alive'
         ELSE lastOp'.kind \in {"key_down", "key_up", "stop_draw",
                                "stop_cancel"}]_vars

\* C27 witness: a piston of the great manual (note 20, below its first key)
\* has just been discarded while a stop was drawn, a key held and a note
\* sounding
C27_Witness ==
    /\ lastOp.kind = "ignored"
    /\ reply.message = Msg("note_on", 0, 20, 100)
    /\ active_stops # {}
    /\ active_keys # << >>
    /\ active_rank_notes # {}

\* an unmapped note of the stop board, a message on a channel that is not
\* configured, a message that is no note message and a pedal piston have
\* been discarded
C27_UnmappedWitness ==
    /\ lastOp.kind = "ignored"
    /\ reply.message = Msg("note_on", 3, 12, 127)
    /\ active_keys # << >>

C27_ChannelWitness ==
    /\ lastOp.kind = "ignored"
    /\ reply.message = Msg("note_on", 5, 60, 100)
    /\ active_stops # {}

C27_TypeWitness ==
    /\ lastOp.kind = "ignored"
    /\ reply.message = Msg("control_change", 0, 60, 100)
    /\ active_rank_notes # {}

C27_PedalWitness ==
    /\ lastOp.kind = "ignored"
    /\ reply.message = Msg("note_on", 2, 90, 100)
    /\ <<"pedal", 40>> \in Range(active_keys)


-----------------------------------------------------------------------------
(* Queries                                                                  *)

QueryKinds == {"list_stops", "get_active_stops", "get_status", "get_state"}

\* the stops of the catalog in these divisions
StopsOfDivisions(divs) == {st \in CatalogStops : st[1] \in divs}

\* the divisions a listing asked for under this argument covers
ListedDivisions(division) ==
    CASE division = "" -> {"great", "swell", "choir", "pedal"}
      [] division = "GREAT" -> {"great"}
      [] division = "Swell" -> {"swell"}
      [] OTHER -> {}

\* the (division, id) pairs a listing flags as active
FlaggedActive(entries) ==
    {<<entries[i].division, entries[i].id>> :
        i \in {j \in DOMAIN entries : entries[j].active}}

\* the (division, id) pairs a listing holds
Listed(entries) ==
    {<<entries[i].division, entries[i].id>> : i \in DOMAIN entries}

\* C28: the queries list_stops, get_active_stops, get_status and get_state
\* are read-only: they emit no command and leave active_stops, active_keys
\* and active_rank_notes unchanged; and the active stops they report are
\* exactly the members of active_stops at the time of the call, each once:
\* get_active_stops and get_state by stop id, get_status by id and division
\* (with the numbers of held keys and of sounding rank notes), list_stops by
\* the active flag of every catalog stop of the divisions asked for.
C28_ReadOnlyQueries ==
    [][lastOp'.kind \in QueryKinds =>
         /\ emitted' = << >>
         /\ UNCHANGED <<active_stops, active_keys, active_rank_notes>>
         /\ lastOp'.kind \in {"get_active_stops", "get_state"} =>
               /\ lastOp'.success
               /\ {e.id : e \in Range(reply'.stops)} =
                     {st[2] : st \in active_stops}
               /\ Len(reply'.stops) = Cardinality(active_stops)
         /\ lastOp'.kind = "get_status" =>
               /\ lastOp'.success
               /\ Listed(reply'.stops) = active_stops
               /\ Len(reply'.stops) = Cardinality(active_stops)
               /\ reply'.active_keys = Cardinality(Range(active_keys))
               /\ reply'.active_notes = Cardinality(active_rank_notes)
         /\ (lastOp'.kind = "list_stops" /\ lastOp'.success) =>
               /\ Listed(reply'.stops) =
                     StopsOfDivisions(ListedDivisions(reply'.division))
               /\ Len(reply'.stops) = Cardinality(Listed(reply'.stops))
               /\ FlaggedActive(reply'.stops) =
                     {st \in active_stops :
                        st[1] \in ListedDivisions(reply'.division)}
         /\ (lastOp'.kind = "get_state" /\ reply'.keys # << >>) =>
               reply'.keys = active_keys
         /\ (lastOp'.kind = "get_state" /\ reply'.notes # {}) =>
               reply'.notes = active_rank_notes]_vars

\* C28 witness: get_status has just reported two active stops of two
\* divisions while a key was held and a rank note sounding
C28_Witness ==
    /\ lastOp.kind = "get_status"
    /\ Len(reply.stops) = 2
    /\ Listed(reply.stops) = active_stops
    /\ {st[1] : st \in active_stops} = {"great", "swell"}
    /\ reply.active_keys >= 1
    /\ reply.active_notes >= 1

\* get_active_stops reported the ids of three active stops
C28_ActiveStopsWitness ==
    /\ lastOp.kind = "get_active_stops"
    /\ {e.id : e \in Range(reply.stops)} =
          {"GREAT_PRINCIPAL_8", "GREAT_MIXTURE", "swell_flute_8"}

\* the unfiltered listing flagged one of the three stops of the catalog
C28_ListWitness ==
    /\ lastOp.kind = "list_stops"
    /\ Len(reply.stops) = 3
    /\ FlaggedActive(reply.stops) = {<<"great", "GREAT_MIXTURE">>}
    /\ active_keys # << >>

\* get_state without filter reported one stop, the held keys and the notes
C28_StateWitness ==
    /\ lastOp.kind = "get_state"
    /\ Len(reply.stops) = 1
    /\ reply.keys # << >>
    /\ reply.notes # {}


-----------------------------------------------------------------------------
(* Active stops are stops of the catalog                                    *)

\* the catalog holds this stop under this division
InCatalog(st) ==
    /\ st[1] \in DOMAIN stops_config
    /\ st[2] \in DOMAIN stops_config[st[1]]

\* C29: in every reachable state, each member "division:stop" of
\* active_stops names a stop that the catalog holds under that division.
C29_ActiveStopsInCatalog == \A st \in active_stops : InCatalog(st)

\* C29 witness: the stop board has just asked the router to draw the id
\* "great:GREAT_PRINCIPAL_8", which the catalog does not hold, while the
\* three stops of the catalog were active: no other member has appeared
C29_Witness ==
    /\ lastOp.kind = "stop_draw"
    /\ ~InCatalog(<<"great", Join("great", "GREAT_PRINCIPAL_8")>>)
    /\ active_stops = {<<"great", "GREAT_PRINCIPAL_8">>,
                       <<"great", "GREAT_MIXTURE">>,
                       <<"swell", "swell_flute_8">>}
    /\ \A st \in active_stops : InCatalog(st)


-----------------------------------------------------------------------------
(* The order in which the active stops are iterated                         *)

\* the commands among msgs: type, target and velocity
Commands(msgs) ==
    {<<m.type, m.output, m.channel, m.note, m.velocity>> :
        m \in NoteMessages(msgs)}

\* the active stops of the division in every order a set of strings may be
\* iterated in
IterationOrders(stops, division) == Orders(ActiveDivisionStops(stops, division))

\* this step is a key-down from the input device
DeviceKeyDown == lastOp'.kind = "key_down"

\* C30, as written: routing is deterministic: the commands a key-down emits,
\* velocities included, are fixed by the stops drawn and the key played;
\* whichever order the active stops are iterated in, the same coupling
\* survives the deduplication of a (rank, note) pair.
C30_Deterministic ==
    [][DeviceKeyDown =>
         \A order \in IterationOrders(active_stops, lastOp'.division) :
            Commands(process_note_on(order, lastOp'.note,
                                     lastOp'.velocity).sends)
               = Commands(emitted')]_vars

\* C30, what the code keeps: the (rank, note) pairs a key-down addresses do
\* not depend on the order of iteration, when it does not raise.
C30_TargetsFixed ==
    [][(DeviceKeyDown /\ lastOp'.success) =>
         \A order \in IterationOrders(active_stops, lastOp'.division) :
            SentPairs(process_note_on(order, lastOp'.note,
                                      lastOp'.velocity).sends)
               = SentPairs(emitted')]_vars

\* the last operation was key (great, 60) going down at velocity 127 with
\* GREAT_PRINCIPAL_8 and GREAT_MIXTURE drawn and no other key held
BothStopsKeyDown ==
    /\ lastOp.kind = "key_down"
    /\ lastOp.division = "great"
    /\ lastOp.note = 60
    /\ lastOp.velocity = 127
    /\ active_stops = {<<"great", "GREAT_PRINCIPAL_8">>,
                       <<"great", "GREAT_MIXTURE">>}
    /\ active_keys = <<<<"great", 60>>>>

\* C30 witness: in that state R1:60 was sent at velocity 80, the clamp of
\* the coupling of GREAT_MIXTURE
C30_Witness ==
    /\ BothStopsKeyDown
    /\ \E m \in NoteMessages(emitted) :
          m.rank = "R1" /\ m.note = 60 /\ m.velocity = 80

\* in the same state after the same operations R1:60 was sent at velocity
\* 127, through the coupling of GREAT_PRINCIPAL_8
C30_OtherRunWitness ==
    /\ BothStopsKeyDown
    /\ \E m \in NoteMessages(emitted) :
          m.rank = "R1" /\ m.note = 60 /\ m.velocity = 127


-----------------------------------------------------------------------------
(* Simulated keys and keys of the input device                              *)

\* what InputMapper._handle_key_event does to the held keys, the sounding
\* rank notes and the commands for a key-down of this velocity
DeviceKeyDownOutcome(division, note, velocity) ==
    \E order \in Orders(ActiveDivisionStops(active_stops, division)) :
       /\ active_keys' = KeyInsert(active_keys, <<division, note>>)
       /\ emitted' = process_note_on(order, note, velocity).sends
       /\ active_rank_notes' =
             TrackAll(active_rank_notes,
                      process_note_on(order, note, velocity).sends)

\* the same for a key-up
DeviceKeyUpOutcome(division, note) ==
    \E order \in Orders(ActiveDivisionStops(active_stops, division)) :
       /\ active_keys' = KeyPop(active_keys, <<division, note>>)
       /\ emitted' = process_note_off(order, note).sends
       /\ active_rank_notes' =
             TrackAll(active_rank_notes, process_note_off(order, note).sends)

\* the simulated key passed the tests of the manual code and the note
AcceptedSimulation(kind) ==
    /\ lastOp'.kind = kind
    /\ lastOp'.error \notin {"Invalid manual", "Invalid note"}

\* C31: a simulated key event is equivalent to a device key event: from the
\* same state, an accepted simulate_key_on(code, n) leaves the held keys,
\* the sounding rank notes and the emitted commands that a key-down of the
\* input device at velocity 64 for that division and note leaves, and
\* simulate_key_off(code, n) those of a key-up; the stops are untouched.
C31_SimulatedAsDevice ==
    [][/\ AcceptedSimulation("simulate_key_on") =>
             /\ DeviceKeyDownOutcome(lastOp'.division, lastOp'.note, 64)
             /\ UNCHANGED active_stops
       /\ AcceptedSimulation("simulate_key_off") =>
             /\ DeviceKeyUpOutcome(lastOp'.division, lastOp'.note)
             /\ UNCHANGED active_stops
       /\ (lastOp'.kind = "key_down" /\ lastOp'.velocity = 64) =>
             DeviceKeyDownOutcome(lastOp'.division, lastOp'.note, 64)
       /\ lastOp'.kind = "key_up" =>
             DeviceKeyUpOutcome(lastOp'.division, lastOp'.note)]_vars

\* key (great, 60) is the one held key, GREAT_PRINCIPAL_8 and GREAT_MIXTURE
\* are drawn, and R1:60, R2:36 and R1:72 have just been sent note-ons at
\* velocities between the clamps of velocity 64
Great60At64 ==
    /\ active_keys = <<<<"great", 60>>>>
    /\ active_stops = {<<"great", "GREAT_PRINCIPAL_8">>,
                       <<"great", "GREAT_MIXTURE">>}
    /\ SentPairs(emitted) = {<<"R1", 60>>, <<"R2", 36>>, <<"R1", 72>>}
    /\ \A m \in NoteMessages(emitted) :
          m.type = "note_on" /\ m.velocity \in {64, 80}
    /\ {<<e.rank, e.note>> : e \in active_rank_notes} = SentPairs(emitted)

\* C31 witness: simulate_key_on('G', 60) has led to that state
C31_Witness ==
    /\ lastOp.kind = "simulate_key_on"
    /\ lastOp.note = 60
    /\ lastOp.success
    /\ Great60At64

\* the key-down of the input device at velocity 64 has led to the same state
C31_DeviceWitness ==
    /\ lastOp.kind = "key_down"
    /\ lastOp.velocity = 64
    /\ reply.message = Msg("note_on", 0, 60, 64)
    /\ Great60At64

\* simulate_key_off has released the last held key: the note-offs were
\* sent and nothing sounds
C31_KeyOffWitness ==
    /\ lastOp.kind = "simulate_key_off"
    /\ lastOp.success
    /\ active_keys = << >>
    /\ emitted # << >>
    /\ active_rank_notes = {}


-----------------------------------------------------------------------------
(* The replay of an activation                                              *)

\* the (held note, rank, rank note) triples the stop routes the held keys of
\* its division to
ReplayTriples(stop, keys) ==
    UNION {{<<n, c.rank, MappedNote(c, n)>> :
               c \in {x \in Couplings(stop) : Routes(x, n)}} :
             n \in HeldNotes(keys, stop[1])}

\* message m is what the replay of the stop sends for some held key: a
\* note-on through a coupling of the stop, at the default velocity 64
\* clamped by that coupling
ReplayedThrough(stop, keys, m) ==
    /\ m.type = "note_on"
    /\ \E n \in HeldNotes(keys, stop[1]) :
          \E c \in Couplings(stop) :
             /\ Routes(c, n)
             /\ m.rank = c.rank
             /\ m.note = MappedNote(c, n)
             /\ m.velocity = Clamped(c, 64)

C32_ClampWitness ==
    /\ lastOp.kind = "activate_stop"
    /\ lastOp.stop = "great_mixture"
    /\ lastOp.success
    /\ Len(active_keys) = 2
    /\ {m.velocity : m \in NoteMessages(emitted)} = {80, 64}


-----------------------------------------------------------------------------
(* Key-up                                                                   *)

\* this step is a key-up of the input device on a division with an active
\* stop
KeyUpStep ==
    /\ lastOp'.kind = "key_up"
    /\ ActiveDivisionStops(active_stops, lastOp'.division) # {}

\* how many note-offs of velocity 0 msgs holds for the (rank, note) pair
NoteOffs(msgs, pair) ==
    Cardinality({i \in DOMAIN msgs :
                   /\ msgs[i].type = "note_off"
                   /\ msgs[i].velocity = 0
                   /\ msgs[i].rank = pair[1]
                   /\ msgs[i].note = pair[2]})

\* the targets these stops route played note n to that are MIDI notes
SendableTargets(stops, n) ==
    {t \in UNION {StopTargets(st, n) : st \in stops} : t[3] \in MidiNotes}

\* C33, as written, for the couplings whose output resolves and whose note
\* is a MIDI note: a key-up on a division with at least one active stop
\* emits a note-off with velocity 0 for every in-range (rank, note) computed
\* from the stops active at key-up time, once per (rank, note), whether or
\* not that note is in active_rank_notes, and removes the matching entries.
C33_KeyUpAsWritten ==
    [][KeyUpStep =>
         /\ \A pair \in SendablePairs(
                           ActiveDivisionStops(active_stops, lastOp'.division),
                           lastOp'.note) :
               NoteOffs(emitted', pair) = 1
         /\ \A t \in SendableTargets(
                        ActiveDivisionStops(active_stops, lastOp'.division),
                        lastOp'.note) :
               t \notin {EntryTarget(e) : e \in active_rank_notes'}]_vars

\* C33, the part the code keeps: a key-up emits note-offs of velocity 0
\* only, never two for one (rank, note), each for a pair the active stops of
\* the division route the note to, and the entry of every target addressed
\* is gone; when every note routed for the event is a MIDI note, every such
\* pair gets exactly one note-off, whether or not its target was in
\* active_rank_notes, and no entry is left for any of the targets.
C33_KeyUpLaw ==
    [][KeyUpStep =>
         /\ \A i \in DOMAIN emitted' :
               /\ emitted'[i].type = "note_off"
               /\ emitted'[i].velocity = 0
               /\ NoteOffs(emitted', <<emitted'[i].rank, emitted'[i].note>>) = 1
               /\ <<emitted'[i].rank, emitted'[i].note>> \in
                     RoutedFormulaPairs(
                        ActiveDivisionStops(active_stops, lastOp'.division),
                        lastOp'.note)
               /\ MsgTarget(emitted'[i]) \notin
                     {EntryTarget(e) : e \in active_rank_notes'}
         /\ UnsendablePairs(ActiveDivisionStops(active_stops, lastOp'.division),
                            lastOp'.note) = {} =>
               /\ lastOp'.success
               /\ \A pair \in RoutedFormulaPairs(
                                 ActiveDivisionStops(active_stops,
                                                     lastOp'.division),
                                 lastOp'.note) :
                     NoteOffs(emitted', pair) = 1
               /\ \A t \in SendableTargets(
                              ActiveDivisionStops(active_stops,
                                                  lastOp'.division),
                              lastOp'.note) :
                     t \notin {EntryTarget(e) : e \in active_rank_notes'}
               /\ active_rank_notes' \subseteq active_rank_notes]_vars

\* C33 witness: the key-up of (swell, 120) with swell_flute_8 drawn raised
\* at the note-off for R3:132; no note-off was sent for R3:108, which the
\* stop routes the key to as well
C33_Witness ==
    /\ lastOp.kind = "key_up"
    /\ lastOp.division = "swell"
    /\ lastOp.note = 120
    /\ lastOp.error = "exception"
    /\ <<"swell", "swell_flute_8">> \in active_stops
    /\ <<"R3", 108>> \in SendablePairs({<<"swell", "swell_flute_8">>}, 120)
    /\ NoteOffs(emitted, <<"R3", 108>>) = 0

\* the key-up of (great, 60) with both stops of the great drawn sent one
\* note-off each for R1:60, R2:36 and R1:72 and nothing is left sounding
C33_LawWitness ==
    /\ lastOp.kind = "key_up"
    /\ lastOp.note = 60
    /\ lastOp.success
    /\ active_stops = {<<"great", "GREAT_PRINCIPAL_8">>,
                       <<"great", "GREAT_MIXTURE">>}
    /\ Len(emitted) = 3
    /\ SentPairs(emitted) = {<<"R1", 60>>, <<"R2", 36>>, <<"R1", 72>>}
    /\ active_rank_notes = {}


-----------------------------------------------------------------------------
(* C34: a key-up concurrent with a deactivation                            *)

\* the kinds of the operations the threads are inside
InFlight ==
    {threads[t].kind : t \in {u \in Threads : threads[u].pc # "idle"}}

\* the kind of the key event a message of the input device starts
KindOf(msg) == IF IsKeyDown(msg[1], msg[2]) THEN "key_down" ELSE "key_up"

\* the operations that run concurrently here: the key-up of the input
\* thread and the deactivations of the other threads
KeyUpRacing == {"key_up", "deactivate_stop"}

\* an operation starts when no other is in flight, or when it and the
\* operations in flight are the racing ones
MayStart(kind, racing) ==
    InFlight = {} \/ (InFlight \cup {kind}) \subseteq racing

\* the threads of SpecThreads, scheduled so that only a key-up and
\* deactivations overlap; every other operation runs alone
NextKeyUpRace ==
    \/ \E key \in ThreadKeys, msg \in ThreadMessages :
          MayStart(KindOf(msg), KeyUpRacing) /\ T_TrackKey("input", key, msg)
    \/ \E t \in Threads : T_ReadStops(t)
    \/ \E t \in Threads, stop_id \in ThreadStopIds :
          MayStart("activate_stop", KeyUpRacing) /\ T_Activate(t, stop_id)
    \/ \E t \in Threads, stop_id \in ThreadStopIds :
          MayStart("deactivate_stop", KeyUpRacing) /\ T_Deactivate(t, stop_id)
    \/ \E t \in Threads : T_HeldKeys(t)
    \/ \E t \in Threads : T_Send(t)
    \/ \E t \in Threads : T_Remove(t)
    \/ \E t \in Threads : T_Return(t)

SpecKeyUpRace == Init /\ [][NextKeyUpRace]_vars

\* every operation has returned
Quiescent == \A t \in Threads : threads[t].pc = "idle"

\* C34, as written: when a key-up of (D, n) on the input thread runs
\* concurrently with a deactivation of a stop of D on another thread, then
\* after both complete no active_rank_notes entry remains for a note that
\* only key (D, n) through that stop had sounded: with every operation
\* returned, every entry is one that a held key and an active stop map to.
C34_NoStuckNote ==
    Quiescent =>
        {EntryTarget(e) : e \in active_rank_notes} \subseteq
            Justified(active_stops, active_keys)

\* C34 witness: the key-up and the deactivation have both returned, the key
\* is up, the stop is off, and the three notes the key sounded through the
\* stop are still in active_rank_notes
C34_Witness ==
    /\ Quiescent
    /\ active_keys = << >>
    /\ active_stops = {}
    /\ Cardinality(active_rank_notes) = 3

\* the key-up and the deactivation in flight together: the key is popped,
\* the stop still active, the deactivation about to read the held keys
C34_RaceWitness ==
    /\ threads["input"].kind = "key_up"
    /\ threads["input"].pc = "stops"
    /\ threads["command"].kind = "deactivate_stop"
    /\ threads["command"].pc = "held"
    /\ active_rank_notes # {}


-----------------------------------------------------------------------------
(* C35: a key-down concurrent with an activation                           *)

\* the note-ons thread t has computed and not yet sent, as (rank, note)
PendingNoteOns(t) ==
    {<<threads[t].todo[i].rank, threads[t].todo[i].note>> :
        i \in {j \in DOMAIN threads[t].todo :
                 threads[t].todo[j].type = "note_on"}}

\* C35, as written: when a key-down of (D, n) on the input thread runs
\* concurrently with the activation of a stop S of D on another thread,
\* exactly one note-on is emitted for each (rank, note) that S maps n to, in
\* every interleaving: the key-down and the activation never both have a
\* note-on to send for the same (rank, note).
C35_NoDoubleSounding ==
    \A t \in Threads \ {"input"} :
        (/\ threads["input"].kind = "key_down"
         /\ threads["input"].pc = "send"
         /\ threads[t].kind = "activate_stop"
         /\ threads[t].pc = "send"
         /\ threads[t].stop[1] = threads["input"].key[1]) =>
            PendingNoteOns("input") \cap PendingNoteOns(t) = {}

\* C35 witness: the key-down of (great, 60) has read active_stops after the
\* activation of GREAT_MIXTURE added the stop, the activation has read
\* active_keys after the key-down tracked the key; each is about to send
\* note-ons for R1:60, R2:36 and R1:72
C35_Witness ==
    /\ threads["input"].kind = "key_down"
    /\ threads["input"].pc = "send"
    /\ threads["command"].kind = "activate_stop"
    /\ threads["command"].pc = "send"
    /\ threads["command"].stop = <<"great", "GREAT_MIXTURE">>
    /\ threads["input"].key = <<"great", 60>>
    /\ PendingNoteOns("input") = {<<"R1", 60>>, <<"R2", 36>>, <<"R1", 72>>}
    /\ PendingNoteOns("command") = {<<"R1", 60>>, <<"R2", 36>>, <<"R1", 72>>}
    /\ active_rank_notes = {}


-----------------------------------------------------------------------------
(* C36: every sounding note is justified                                   *)

\* C36, as written: in any sequential execution of key events, stop
\* toggles, all-clear and panic, every active_rank_notes entry is justified
\* by some held key and some active stop that maps to it; in particular
\* whenever active_keys is empty, active_rank_notes is empty.
C36_SoundingJustified ==
    /\ {EntryTarget(e) : e \in active_rank_notes} \subseteq
           Justified(active_stops, active_keys)
    /\ active_keys = << >> => active_rank_notes = {}


\* the pedal: a key of the pedal board and the two stops of the division,
\* one of which transposes the key below MIDI note 0
PedalKeys == {<<"pedal", 40>>}

PedalMessages == {<<"note_on", 100>>, <<"note_off", 0>>}

PedalStopIds == {"PEDAL_BOURDON_16", "PEDAL_RESULTANT_64"}

PedalSimKeys == {<<"P", 40>>}

\* key events, stop toggles, all-clear and panic, one at a time
NextPedal ==
    \/ \E stop_id \in PedalStopIds : ActivateStop(stop_id)
    \/ \E stop_id \in PedalStopIds : DeactivateStop(stop_id)
    \/ \E key \in PedalKeys, msg \in PedalMessages :
          HandleKeyEvent(key[1], key[2], msg)
    \/ \E sim \in PedalSimKeys : SimulateKeyOn(sim[1], sim[2])
    \/ \E sim \in PedalSimKeys : SimulateKeyOff(sim[1], sim[2])
    \/ AllClear
    \/ \E fails \in PanicFailures : Panic(fails)

SpecPedal == Init /\ [][NextPedal]_vars

\* C36 witness: key (pedal, 40) was released with both pedal stops drawn;
\* the key-up raised at the note-off for R4:-8 before the note-off for
\* R4:40, which is still in active_rank_notes with no key held
C36_Witness ==
    /\ lastOp.kind \in {"key_up", "simulate_key_off"}
    /\ lastOp.note = 40
    /\ active_keys = << >>
    /\ active_stops = {<<"pedal", "PEDAL_BOURDON_16">>,
                       <<"pedal", "PEDAL_RESULTANT_64">>}
    /\ {<<e.rank, e.note>> : e \in active_rank_notes} = {<<"R4", 40>>}


-----------------------------------------------------------------------------
(* C37: a note already sounding when a stop is drawn                       *)

\* the targets sounding for a held key through one of these stops
SoundingThrough(stops, keys, entries) ==
    Justified(stops, keys) \cap {EntryTarget(e) : e \in entries}

\* C37, as written: activating stop B while a key is held never emits a
\* second note-on for a (rank, rank note) that is already sounding for that
\* key through another active stop A, so that at most one note-on is
\* outstanding for any (output, channel, note).
C37_NoSecondNoteOn ==
    [][\A id \in StopIds \cap DOMAIN NamedStop :
         ActivatesInactive(id) =>
            \A i \in DOMAIN emitted' :
               emitted'[i].type = "note_on" =>
                  MsgTarget(emitted'[i]) \notin
                     SoundingThrough(active_stops, active_keys,
                                     active_rank_notes)]_vars

\* C37 witness: GREAT_PRINCIPAL_8 was drawn with key (great, 60) held and
\* sounding through GREAT_MIXTURE; the activation sent a note-on to
\* (fluidsynth, 0, 60), which GREAT_MIXTURE maps the key to as well and
\* which is in active_rank_notes once
C37_Witness ==
    /\ lastOp.kind = "activate_stop"
    /\ lastOp.stop = "GREAT_PRINCIPAL_8"
    /\ <<"great", "GREAT_MIXTURE">> \in active_stops
    /\ <<"great", 60>> \in Range(active_keys)
    /\ <<"fluidsynth", 0, 60>> \in StopTargets(<<"great", "GREAT_MIXTURE">>, 60)
    /\ \E i \in DOMAIN emitted :
          /\ emitted[i].type = "note_on"
          /\ MsgTarget(emitted[i]) = <<"fluidsynth", 0, 60>>
    /\ Cardinality({e \in active_rank_notes :
                      EntryTarget(e) = <<"fluidsynth", 0, 60>>}) = 1


-----------------------------------------------------------------------------
(* C38: a failed activation                                                *)

\* this step is an Actions.activate_stop that reported success = False
FailedActivation ==
    /\ lastOp'.kind = "activate_stop"
    /\ ~lastOp'.success

\* C38, as written: whenever Actions.activate_stop reports success = False
\* (unknown stop, or an exception raised while replaying held keys),
\* active_stops is the same as before the call.
C38_FailedActivationInert ==
    [][FailedActivation => active_stops' = active_stops]_vars

\* C38, the part the code keeps: an activation that fails for a stop id the
\* catalog does not know leaves active_stops as it was; one that fails for
\* a catalog stop raised during the replay, the stop was not active before
\* and is active after, and nothing else in active_stops changed.
C38_FailedActivationLaw ==
    [][FailedActivation =>
         IF lastOp'.stop \in DOMAIN NamedStop
         THEN /\ NamedStop[lastOp'.stop] \notin active_stops
              /\ active_stops' = active_stops \cup {NamedStop[lastOp'.stop]}
              /\ HeldNotes(active_keys, NamedStop[lastOp'.stop][1]) # {}
         ELSE active_stops' = active_stops]_vars

\* C38 witness: SWELL_FLUTE_8 was drawn with key (swell, 120) held; the
\* replay raised at R3:132, the call reported failure, and the stop is in
\* active_stops
C38_Witness ==
    /\ lastOp.kind = "activate_stop"
    /\ lastOp.stop = "SWELL_FLUTE_8"
    /\ ~lastOp.success
    /\ <<"swell", 120>> \in Range(active_keys)
    /\ active_stops = {<<"swell", "swell_flute_8">>}
    /\ emitted = << >>

\* an activation failed for an id the catalog does not know while a stop
\* was drawn
C38_UnknownWitness ==
    /\ lastOp.kind = "activate_stop"
    /\ lastOp.stop = "NO_SUCH_STOP"
    /\ ~lastOp.success
    /\ active_stops # {}


-----------------------------------------------------------------------------
(* C39: note-on with velocity 0                                            *)

\* this step handles a note-on of velocity 0 for a key of a manual or of
\* the pedal
ZeroVelocityKeyStep ==
    /\ reply'.message.type = "note_on"
    /\ reply'.message.velocity = 0
    /\ \/ /\ reply'.message.channel \in DOMAIN manual_channels
          /\ InKeyRange(manual_ranges[reply'.message.channel],
                        reply'.message.note)
       \/ /\ reply'.message.channel = pedal_channel
          /\ InKeyRange(pedal_range, reply'.message.note)

\* the division of a manual or pedal channel
ChannelDivision(channel) ==
    IF channel = pedal_channel THEN "pedal" ELSE manual_channels[channel]

\* the step released the key of the message: a key-up, the key not held
\* after it, nothing but note-offs emitted
ReleasesKey ==
    /\ lastOp'.kind = "key_up"
    /\ lastOp'.division = ChannelDivision(reply'.message.channel)
    /\ lastOp'.note = reply'.message.note
    /\ <<lastOp'.division, lastOp'.note>> \notin Range(active_keys')
    /\ \A i \in DOMAIN emitted' : emitted'[i].type = "note_off"

\* C39, as written: a note-on message with velocity 0 is treated as a
\* release on every mapped input channel: on a manual or pedal channel it is
\* a key-up, and on the stop-board channel it cancels the mapped stop rather
\* than drawing it.
C39_ZeroVelocityReleases ==
    [][/\ ZeroVelocityKeyStep => ReleasesKey
       /\ \A n \in DOMAIN stop_mappings :
             (StopBoardStep(n, "note_on") /\ reply'.message.velocity = 0) =>
                /\ lastOp'.kind = "stop_cancel"
                /\ stop_mappings[n] \notin active_stops']_vars

\* C39, what the code does: on a manual or pedal channel a note-on of
\* velocity 0 is a key-up; on the stop-board channel it is handled as a
\* draw, like a note-on of any other velocity, and leaves active_stops as
\* it was.
C39_ZeroVelocityLaw ==
    [][/\ ZeroVelocityKeyStep => ReleasesKey
       /\ \A n \in DOMAIN stop_mappings :
             (StopBoardStep(n, "note_on") /\ reply'.message.velocity = 0) =>
                /\ lastOp'.kind = "stop_draw"
                /\ active_stops' = active_stops]_vars

\* C39 witness: the stop board sent note-on 10 with velocity 0 while
\* GREAT_PRINCIPAL_8, the stop mapped to note 10, was drawn: the message
\* was handled as a draw and the stop is still active
C39_Witness ==
    /\ reply.message = Msg("note_on", stop_channel, 10, 0)
    /\ lastOp.kind = "stop_draw"
    /\ stop_mappings[10] \in active_stops

\* a note-on of velocity 0 released the held key (great, 60) with a stop of
\* the great drawn
C39_KeyWitness ==
    /\ reply.message = Msg("note_on", 0, 60, 0)
    /\ lastOp.kind = "key_up"
    /\ active_keys = << >>
    /\ emitted # << >>

\* a note-on of velocity 0 on the pedal channel was handled as a key-up
C39_PedalWitness ==
    /\ reply.message = Msg("note_on", pedal_channel, 40, 0)
    /\ lastOp.kind = "key_up"
    /\ lastOp.division = "pedal"
    /\ <<"pedal", 40>> \notin Range(active_keys)


-----------------------------------------------------------------------------
(* C40: panic and the stops                                                *)

\* this step is the first key-down after a panic
KeyDownAfterPanic ==
    /\ lastOp.kind = "panic"
    /\ lastOp'.kind = "key_down"

\* C40: panic leaves active_stops unchanged: every stop drawn before panic
\* is still drawn after it, so a key-down right after panic sounds through
\* the same stops as before: it sends, unless it raises, a note-on for
\* exactly the (rank, note) pairs the stops drawn route the key to.
C40_PanicKeepsStops ==
    [][/\ lastOp'.kind = "panic" =>
             /\ active_stops' = active_stops
             /\ active_keys' = << >>
             /\ active_rank_notes' = {}
       /\ KeyDownAfterPanic =>
             /\ active_stops' = active_stops
             /\ lastOp'.success =>
                   /\ SentPairs(emitted') =
                         RoutedFormulaPairs(
                            ActiveDivisionStops(active_stops,
                                                lastOp'.division),
                            lastOp'.note)
                   /\ \A i \in DOMAIN emitted' :
                         emitted'[i].type = "note_on"
                   /\ {EntryTarget(e) : e \in active_rank_notes'} =
                         Targets(emitted')]_vars

\* C40 witness: panic has run with both stops of the great drawn and they
\* are still drawn; the key and note tables are empty and the controllers
\* went out to both outputs
C40_Witness ==
    /\ lastOp.kind = "panic"
    /\ active_stops = {<<"great", "GREAT_PRINCIPAL_8">>,
                       <<"great", "GREAT_MIXTURE">>}
    /\ active_keys = << >>
    /\ active_rank_notes = {}
    /\ Len(emitted) > 0

\* key (great, 60) went down with nothing else held and both stops of the
\* great drawn, as after a panic: R1:60, R2:36 and R1:72 sound
C40_KeyDownWitness ==
    /\ lastOp.kind = "key_down"
    /\ lastOp.success
    /\ active_stops = {<<"great", "GREAT_PRINCIPAL_8">>,
                       <<"great", "GREAT_MIXTURE">>}
    /\ active_keys = <<<<"great", 60>>>>
    /\ SentPairs(emitted) = {<<"R1", 60>>, <<"R2", 36>>, <<"R1", 72>>}
    /\ Cardinality(active_rank_notes) = 3

====
